---- MODULE Spec2Model ----
\* A model of pyknp-eventgraph: the shared Builder state, the segmentation of
\* parsed sentences into events, the resolution of relations between events,
\* the dictionary export and the loader, and the dispatch of phrases (tokens)
\* to the predicate and the arguments of an event.
\*
\* Strings of the source are written in ASCII:
\*   "adnominal"   the label and clause-break value  rentai-shuushoku
\*   "complement"  the label and clause-break value  hobun
\*   "discourse:"  the label prefix                  danwa-kankei:
\*   "parallel"    the label                         heiretsu
\*   "dependency"  the label                         kakari-uke
\* The tables Builder.stid_event_map / stid_bid_map / stid_tag_map used by
\* sentence.py, event.py, relation.py and token.py are the tables that
\* builder.py declares as ssid_tid_event_map / ssid_tid_bid_map /
\* ssid_tid_tag_map; the model keeps the names of builder.py.
EXTENDS Integers, Sequences, FiniteSets, TLC

\* ------------------------------------------------------------------ bounds
\* the largest number of sentences of an input document
MaxSents == 2
\* the largest number of phrases (tags) of an input document
MaxDocTags == 3
\* the largest number of clause-end phrases of an input document
MaxClauses == 3
\* the largest number of graphs built or loaded in one process
MaxGraphs == 2
\* the largest number of arguments of a predicate
MaxArgs == 2

\* ------------------------------------------------------------------ helpers
None == -1

RECURSIVE SeqSum(_)
SeqSum(s) == IF s = <<>> THEN 0 ELSE s[1] + SeqSum(Tail(s))

Front(s) == SubSeq(s, 1, Len(s) - 1)

Last(s) == s[Len(s)]

\* dict.get(key, default) of a Python dictionary held as a function
Get(map, key, default) == IF key \in DOMAIN map THEN map[key] ELSE default

\* map[key] = value on a Python dictionary held as a function
Put(map, key, value) ==
  [k \in (DOMAIN map) \cup {key} |-> IF k = key THEN value ELSE map[k]]

EmptyMap == [k \in {} |-> None]

\* ------------------------------------------------------------------ input
\* A phrase (pyknp Tag) of the parser output, as far as segmentation and the
\* parent walk read it: the clause-head mark, the clause-end mark, the id of
\* the phrase it depends on (-1 at the sentence root), its bunsetsu, and the
\* compound-particle mark that TokenBuilder reads.
\* The parser is head-final: a phrase depends on a later phrase.
TagsWith(n, compounds) ==
  { [ p \in 1..n |->
        [ head |-> r[p].head, end |-> r[p].end,
          parent_id |-> IF p = n THEN -1 ELSE IF r[p].last THEN n - 1 ELSE p,
          bid |-> p - 1, compound |-> r[p].compound ] ] :
      r \in [ 1..n -> [ head : BOOLEAN, end : BOOLEAN, last : BOOLEAN, compound : compounds ] ] }

\* the phrases of the documents whose tokens are dispatched
TokTagsOfLength(n) == TagsWith(n, BOOLEAN)

\* the phrases of the documents whose relations are resolved: no compound particle
TagsOfLength(n) == TagsWith(n, {FALSE})

\* the sentence id of the parser output (blist.sid) of the i-th sentence
SidOf(i) == IF i = 1 THEN "S-A" ELSE IF i = 2 THEN "S-B" ELSE "S-C"

\* the sequences of sentence lengths of the input documents
LengthVectors ==
  { lv \in UNION { [1..s -> 1..MaxDocTags] : s \in 1..MaxSents } : SeqSum(lv) <= MaxDocTags }

RECURSIVE DocsOfLengths(_)
DocsOfLengths(lv) ==
  IF lv = <<>> THEN { <<>> }
  ELSE { Append(d, [sid |-> SidOf(Len(lv)), tags |-> t]) :
           d \in DocsOfLengths(Front(lv)), t \in TagsOfLength(Last(lv)) }

\* the number of clause-end phrases of a document
RECURSIVE ClauseEnds(_)
ClauseEnds(d) ==
  IF d = <<>> THEN 0
  ELSE Cardinality({ p \in 1..Len(Head(d).tags) : Head(d).tags[p].end }) + ClauseEnds(Tail(d))

\* the input documents: lists of parsed sentences (BList)
Docs == { d \in UNION { DocsOfLengths(lv) : lv \in LengthVectors } : ClauseEnds(d) <= MaxClauses }

\* ------------------------------------------------------------------ state
VARIABLES
  blists,              \* the parser output handed to EventGraph.build
  pc,                  \* "idle", "sentences", "relations" or "done"
  gen,                 \* the number of EventGraph objects constructed so far
  ssid,                \* Builder.ssid
  evid,                \* Builder.evid
  evid_event_map,      \* Builder.evid_event_map
  ssid_tid_event_map,  \* Builder.ssid_tid_event_map (stid_event_map)
  ssid_tid_bid_map,    \* Builder.ssid_tid_bid_map (stid_bid_map)
  ssid_tid_tag_map,    \* Builder.ssid_tid_tag_map (stid_tag_map)
  sentences,           \* document.sentences of the current graph
  events,              \* the Event objects of the current graph, in creation order
  cursor,              \* the number of events whose relations are resolved
  dump,                \* <<d>>: the dictionary the caller got from to_dict
  loaded,              \* <<d>>: the dictionary the current graph was loaded from
  tokens,              \* per event, in creation order: the tokens TokenBuilder dispatched
  raised,              \* the exception the last call raised to its caller (NoError: none)
  runs,                \* per event and text accessor: how often its text was computed
  predicate_mrphs_,    \* per event: Predicate._mrphs (<<>>: None)
  event_ids_,          \* per event and label: Predicate._adnominal_event_ids and
                       \* Predicate._sentential_complement_event_ids (<<>>: None)
  truncations          \* a morpheme list and the results of truncating it

vars == << blists, pc, gen, ssid, evid, evid_event_map, ssid_tid_event_map,
           ssid_tid_bid_map, ssid_tid_tag_map, sentences, events, cursor,
           dump, loaded, tokens, raised, runs, predicate_mrphs_, event_ids_,
           truncations >>

\* the text state of the events: nothing read, nothing stored
text_vars == << runs, predicate_mrphs_, event_ids_, truncations >>

\* an exception raised to the caller, and no exception
Error(error, by) == [ error |-> error, by |-> by ]

NoError == Error("", "")

\* a reference to an Event object: the graph that owns it, its place among
\* the events of that graph, and its (immutable) evid
Ref(g, i, e) == [g |-> g, obj |-> i, evid |-> e]

\* the reference that stands for Python's None
NoEvent == Ref(0, 0, None)

\* ------------------------------------------------------------------ Builder
\* Builder.reset: the class attributes after the call, given those before it
BuilderResetKeepsEvid(b) ==
  [ ssid |-> 0, evid |-> b.evid, evid_event_map |-> b.evid_event_map,
    ssid_tid_event_map |-> EmptyMap, ssid_tid_bid_map |-> EmptyMap,
    ssid_tid_tag_map |-> EmptyMap ]

BuilderReset(b) ==
  [ ssid |-> 0, evid |-> 0, evid_event_map |-> b.evid_event_map,
    ssid_tid_event_map |-> EmptyMap, ssid_tid_bid_map |-> EmptyMap,
    ssid_tid_tag_map |-> EmptyMap ]

BuilderState ==
  [ ssid |-> ssid, evid |-> evid, evid_event_map |-> evid_event_map,
    ssid_tid_event_map |-> ssid_tid_event_map, ssid_tid_bid_map |-> ssid_tid_bid_map,
    ssid_tid_tag_map |-> ssid_tid_tag_map ]

\* ------------------------------------------------------------------ segmentation
\* The loop of SentenceBuilder.__call__ from phrase p on: start, head and end
\* are the trackers (None when unset), acc the spans handed to EventBuilder.
RECURSIVE SegmentLastHead(_, _, _, _, _, _)
SegmentLastHead(tags, p, start, head, end, acc) ==
  IF p > Len(tags) THEN acc
  ELSE LET tid == p - 1
           s1 == IF start = None THEN tid ELSE start
           h1 == IF tags[p].head THEN tid ELSE head
       IN IF end = None /\ tags[p].end
          THEN IF h1 # None
               THEN SegmentLastHead(tags, p + 1, None, None, None,
                                    Append(acc, [start |-> s1, head |-> h1, end |-> tid]))
               ELSE SegmentLastHead(tags, p + 1, s1, h1, tid, acc)
          ELSE SegmentLastHead(tags, p + 1, s1, h1, end, acc)

RECURSIVE SegmentKeepsStart(_, _, _, _, _, _)
SegmentKeepsStart(tags, p, start, head, end, acc) ==
  IF p > Len(tags) THEN acc
  ELSE LET tid == p - 1
           s1 == IF start = None THEN tid ELSE start
           h1 == IF head = None /\ tags[p].head THEN tid ELSE head
       IN IF end = None /\ tags[p].end
          THEN IF h1 # None
               THEN SegmentKeepsStart(tags, p + 1, s1, None, None,
                                      Append(acc, [start |-> s1, head |-> h1, end |-> tid]))
               ELSE SegmentKeepsStart(tags, p + 1, s1, h1, tid, acc)
          ELSE SegmentKeepsStart(tags, p + 1, s1, h1, end, acc)

RECURSIVE Segment(_, _, _, _, _, _)
Segment(tags, p, start, head, end, acc) ==
  IF p > Len(tags) THEN acc
  ELSE LET tid == p - 1
           s1 == IF start = None THEN tid ELSE start
           h1 == IF head = None /\ tags[p].head THEN tid ELSE head
       IN IF end = None /\ tags[p].end
          THEN IF h1 # None
               THEN Segment(tags, p + 1, None, None, None,
                            Append(acc, [start |-> s1, head |-> h1, end |-> tid]))
               ELSE Segment(tags, p + 1, s1, h1, tid, acc)
          ELSE Segment(tags, p + 1, s1, h1, end, acc)

\* Builder.evid += 1 in EventBuilder.__call__ and JsonEventBuilder.__call__
NextEvidStuck(e) == e

NextEvid(e) == e + 1

\* the evid EventBuilder gives to the k-th event it creates from counter value e
RECURSIVE EvidAfter(_, _)
EvidAfter(e, k) == IF k = 0 THEN e ELSE NextEvid(EvidAfter(e, k - 1))

\* Event.__init__ as called by EventBuilder.__call__
NewEvent(sentence, id, sid, sentence_ssid, span) ==
  [ sentence |-> sentence, evid |-> id, sid |-> sid, ssid |-> sentence_ssid,
    start |-> span.start, head |-> span.head, end |-> span.end,
    parent |-> None, children |-> <<>>,
    outgoing_relations |-> <<>>, incoming_relations |-> <<>>,
    surf_ |-> <<>> ]

\* the (ssid, tid) -> event entries EventBuilder.__call__ writes for its events
RECURSIVE EventMapAfter(_, _, _, _, _, _)
EventMapAfter(map, g, base, sentence_ssid, newEvents, k) ==
  IF k = 0 THEN map
  ELSE LET m  == EventMapAfter(map, g, base, sentence_ssid, newEvents, k - 1)
           ev == newEvents[k]
       IN [ key \in (DOMAIN m) \cup { <<sentence_ssid, t>> : t \in ev.start..ev.end } |->
              IF key[1] = sentence_ssid /\ key[2] \in ev.start..ev.end
              THEN Ref(g, base + k, ev.evid) ELSE m[key] ]

\* the (ssid, tid) -> bid and (ssid, tid) -> tag entries SentenceBuilder writes
TagMapAfter(map, sentence_ssid, tags, bidOnly) ==
  [ key \in (DOMAIN map) \cup { <<sentence_ssid, p - 1>> : p \in 1..Len(tags) } |->
      IF key[1] = sentence_ssid /\ key[2] \in 0..(Len(tags) - 1)
      THEN (IF bidOnly THEN tags[key[2] + 1].bid ELSE key[2])
      ELSE map[key] ]

TypeOK ==
  /\ blists \in Docs
  /\ pc \in {"idle", "sentences", "relations", "done", "failed"}
  /\ gen \in 0..MaxGraphs
  /\ ssid \in Nat /\ evid \in Nat

\* the state of a fresh process that is about to build a document of D, or
\* to truncate a morpheme list of T
InitWith(D, T) ==
  /\ blists \in D
  /\ pc = "idle"
  /\ gen = 0
  /\ ssid = 0
  /\ evid = 0
  /\ evid_event_map = EmptyMap
  /\ ssid_tid_event_map = EmptyMap
  /\ ssid_tid_bid_map = EmptyMap
  /\ ssid_tid_tag_map = EmptyMap
  /\ sentences = <<>>
  /\ events = <<>>
  /\ cursor = 0
  /\ dump = <<>>
  /\ loaded = <<>>
  /\ tokens = <<>>
  /\ raised = NoError
  /\ runs = <<>>
  /\ predicate_mrphs_ = <<>>
  /\ event_ids_ = <<>>
  /\ truncations \in T

InitOf(D) == InitWith(D, { <<>> })

Init == InitOf(Docs)

\* The stage that follows a call of SentenceBuilder: the next sentence while
\* sentences remain, then the relations of the events, all at once
PcAfterSentenceEager(nsentences, nblists, nevents) ==
  IF nevents > 0 THEN "relations"
  ELSE IF nsentences < nblists THEN "sentences" ELSE "done"

PcAfterSentence(nsentences, nblists, nevents) ==
  IF nsentences < nblists THEN "sentences"
  ELSE IF nevents = 0 THEN "done" ELSE "relations"

\* SentenceBuilder.__call__ on the next sentence of the input, as called in
\* turn by DocumentBuilder.__call__; the first call follows EventGraph().
BuildSentence ==
  /\ pc \in {"idle", "sentences"}
  /\ pc = "idle" => gen < MaxGraphs
  /\ Len(sentences) < Len(blists)
  /\ LET blist  == blists[Len(sentences) + 1]
         g      == IF pc = "idle" THEN gen + 1 ELSE gen
         spans  == Segment(blist.tags, 1, None, None, None, <<>>)
         news   == [ k \in 1..Len(spans) |->
                       NewEvent(Len(sentences) + 1, EvidAfter(evid, k - 1), blist.sid,
                                ssid, spans[k]) ]
         sent   == [ sid |-> blist.sid, ssid |-> ssid, tags |-> blist.tags,
                     events |-> [ k \in 1..Len(spans) |-> Len(events) + k ],
                     mrphs_ |-> <<>> ]
     IN /\ gen' = g
        /\ ssid' = ssid + 1
        /\ evid' = EvidAfter(evid, Len(spans))
        /\ events' = events \o news
        /\ ssid_tid_event_map' = EventMapAfter(ssid_tid_event_map, g, Len(events), ssid, news, Len(news))
        /\ ssid_tid_bid_map' = TagMapAfter(ssid_tid_bid_map, ssid, blist.tags, TRUE)
        /\ ssid_tid_tag_map' = TagMapAfter(ssid_tid_tag_map, ssid, blist.tags, FALSE)
        /\ sentences' = Append(sentences, sent)
        /\ pc' = PcAfterSentence(Len(sentences'), Len(blists), Len(events'))
        /\ cursor' = 0
        /\ dump' = IF pc = "idle" THEN <<>> ELSE dump
        /\ loaded' = <<>>
        /\ raised' = NoError
        /\ UNCHANGED << blists, evid_event_map, tokens, text_vars >>

\* Builder.reset, as called when a new graph is about to be built or loaded;
\* the caller drops the graph it held.
Reset ==
  /\ pc \in {"done", "failed"}
  /\ LET b == BuilderReset(BuilderState)
     IN /\ ssid' = b.ssid
        /\ evid' = b.evid
        /\ evid_event_map' = b.evid_event_map
        /\ ssid_tid_event_map' = b.ssid_tid_event_map
        /\ ssid_tid_bid_map' = b.ssid_tid_bid_map
        /\ ssid_tid_tag_map' = b.ssid_tid_tag_map
  /\ pc' = "idle"
  /\ sentences' = <<>>
  /\ events' = <<>>
  /\ cursor' = 0
  /\ raised' = NoError
  /\ UNCHANGED << blists, gen, dump, loaded, tokens, text_vars >>

\* ------------------------------------------------------------------ relations
\* The features of an event's end phrase that RelationsBuilder reads: the
\* value of the clause-break feature, the dependency type, the discourse
\* annotations <sdist/tid/sid:label> and the clausal-function annotations
\* <label[:surf]> of its feature string.
MaxTid ==
  LET lens == { Len(blists[i].tags) : i \in 1..Len(blists) }
  IN (CHOOSE m \in lens : \A n \in lens : n <= m) - 1

DiscAnnotations ==
  [ sdist : {0, 1}, tid : 0..MaxTid, label : {"contrast"} ]

FuncAnnotations == [ label : {"cause"}, surf : {"", "tame"} ]

EndFeatures ==
  [ kubun : {"adnominal", "complement", "other"},
    dpndtype : {"D", "P"},
    disc : { <<>> } \cup { <<a>> : a \in DiscAnnotations },
    func : { <<>> } \cup { <<a>> : a \in { b \in FuncAnnotations : b.surf # "" } }
             \cup { <<a, b>> \in FuncAnnotations \X FuncAnnotations : a.surf = "" /\ b.surf # "" } ]

\* Relation.__init__
Relation(modifier, head, label, surf, head_tid, reliable) ==
  [ modifier |-> modifier, head |-> head, label |-> label, surf |-> surf,
    head_tid |-> head_tid, reliable |-> reliable ]

\* the two appends of RelationBuilder.__call__ (and of JsonRelationBuilder)
\* on the events of graph g
AttachOutgoingOnly(evs, g, r) ==
  [ i \in DOMAIN evs |->
      [ evs[i] EXCEPT
          !.outgoing_relations = IF r.modifier.g = g /\ r.modifier.obj = i THEN Append(@, r) ELSE @ ] ]

Attach(evs, g, r) ==
  [ i \in DOMAIN evs |->
      [ evs[i] EXCEPT
          !.outgoing_relations = IF r.modifier.g = g /\ r.modifier.obj = i THEN Append(@, r) ELSE @,
          !.incoming_relations = IF r.head.g = g /\ r.head.obj = i THEN Append(@, r) ELSE @ ] ]

RECURSIVE AttachAll(_, _, _)
AttachAll(evs, g, rels) ==
  IF rels = <<>> THEN evs ELSE AttachAll(Attach(evs, g, Head(rels)), g, Tail(rels))

\* the inner loop of RelationsBuilder._find_parent: the first of the
\* candidate events (objects cands of evs) whose head or end phrase is tid
RECURSIVE FirstCandidate(_, _, _)
FirstCandidate(evs, cands, tid) ==
  IF cands = <<>> THEN None
  ELSE IF tid \in { evs[Head(cands)].head, evs[Head(cands)].end } THEN Head(cands)
  ELSE FirstCandidate(evs, Tail(cands), tid)

\* filter(lambda event_: event.evid < event_.evid, event.sentence.events)
LaterEventsUnfiltered(evs, sentEvents, id) == sentEvents

RECURSIVE LaterEvents(_, _, _)
LaterEvents(evs, sentEvents, id) ==
  IF sentEvents = <<>> THEN <<>>
  ELSE IF id < evs[Head(sentEvents)].evid
       THEN <<Head(sentEvents)>> \o LaterEvents(evs, Tail(sentEvents), id)
       ELSE LaterEvents(evs, Tail(sentEvents), id)

\* the while loop of RelationsBuilder._find_parent from the phrase tid on
\* (None: the phrase above the sentence root); the result is an object or None
ParentWalkOneStep(evs, cands, tags, tid) ==
  IF tid = None THEN None ELSE FirstCandidate(evs, cands, tid)

RECURSIVE ParentWalk(_, _, _, _)
ParentWalk(evs, cands, tags, tid) ==
  IF tid = None THEN None
  ELSE LET c == FirstCandidate(evs, cands, tid)
       IN IF c # None THEN c ELSE ParentWalk(evs, cands, tags, tags[tid + 1].parent_id)

\* RelationsBuilder._find_parent(event) for the object i of evs
FindParent(evs, sents, i) ==
  LET ev   == evs[i]
      sent == sents[ev.sentence]
  IN ParentWalk(evs, LaterEvents(evs, sent.events, ev.evid), sent.tags,
                sent.tags[ev.head + 1].parent_id)

\* lst[-2:]
LastTwo(lst) == SubSeq(lst, IF Len(lst) >= 2 THEN Len(lst) - 1 ELSE 1, Len(lst))

\* the "dependency ambiguity" value of _get_outgoing_relations; par is the
\* parent object or None
NextEventIsReliable(evs, sents, i, par) ==
  IF par # None
  THEN LET se == sents[evs[i].sentence].events
       IN \E k \in 1..(Len(se) - 1) : se[k] = i /\ se[k + 1] = par
  ELSE FALSE

ReliableParentIsLast(evs, sents, i, par) ==
  IF par # None
  THEN LET se == sents[evs[i].sentence].events
       IN evs[par].evid = evs[se[Len(se)]].evid
  ELSE FALSE

Reliable(evs, sents, i, par) ==
  IF par # None
  THEN LET se == sents[evs[i].sentence].events
       IN << evs[i].evid, evs[par].evid >> = LastTwo([ k \in 1..Len(se) |-> evs[se[k]].evid ])
  ELSE FALSE

\* the discourse loop of _get_outgoing_relations: one relation per annotation
\* whose (event.ssid + sdist, tid) the (ssid, tid) -> event table resolves
RECURSIVE DiscourseRelationsBackward(_, _, _, _)
DiscourseRelationsBackward(me, ev_ssid, annots, map) ==
  IF annots = <<>> THEN <<>>
  ELSE LET a   == Head(annots)
           key == << ev_ssid - a.sdist, a.tid >>
           rest == DiscourseRelationsBackward(me, ev_ssid, Tail(annots), map)
       IN IF key \in DOMAIN map
          THEN << Relation(me, map[key], "discourse:" \o a.label, "", -1, FALSE) >> \o rest
          ELSE rest

RECURSIVE DiscourseRelations(_, _, _, _)
DiscourseRelations(me, ev_ssid, annots, map) ==
  IF annots = <<>> THEN <<>>
  ELSE LET a   == Head(annots)
           key == << ev_ssid + a.sdist, a.tid >>
           rest == DiscourseRelations(me, ev_ssid, Tail(annots), map)
       IN IF key \in DOMAIN map
          THEN << Relation(me, map[key], "discourse:" \o a.label, "", -1, FALSE) >> \o rest
          ELSE rest

\* the clausal-function loop of _get_outgoing_relations
FunctionRelations(me, par, annots, head_tid, reliable) ==
  [ k \in 1..Len(annots) |->
      Relation(me, par, annots[k].label, annots[k].surf, head_tid, reliable) ]

\* the label cascade of _get_outgoing_relations after the parent search:
\* me and par are references (par = NoEvent: no parent), f the end-phrase
\* features, head_tid the parent id of the end phrase
CascadeParallelFirst(me, ev_ssid, par, f, head_tid, reliable, map) ==
  IF par # NoEvent /\ f.dpndtype = "P"
  THEN << Relation(me, par, "parallel", "", -1, reliable) >>
  ELSE IF par # NoEvent /\ f.kubun = "adnominal"
  THEN << Relation(me, par, "adnominal", "", head_tid, reliable) >>
  ELSE IF par # NoEvent THEN << Relation(me, par, "dependency", "", -1, reliable) >>
  ELSE <<>>

CascadeDiscourseNeedsParent(me, ev_ssid, par, f, head_tid, reliable, map) ==
  LET r1 == IF par # NoEvent /\ f.kubun = "adnominal"
            THEN << Relation(me, par, "adnominal", "", head_tid, reliable) >> ELSE <<>>
      r2 == IF par # NoEvent /\ f.kubun = "complement"
            THEN r1 \o << Relation(me, par, "complement", "", head_tid, reliable) >> ELSE r1
      r3 == IF r2 = <<>> /\ par # NoEvent
            THEN DiscourseRelations(me, ev_ssid, f.disc, map) ELSE r2
      r4 == IF r3 = <<>> /\ par # NoEvent
            THEN FunctionRelations(me, par, f.func, head_tid, reliable) ELSE r3
      r5 == IF r4 = <<>> /\ par # NoEvent /\ f.dpndtype = "P"
            THEN << Relation(me, par, "parallel", "", -1, reliable) >> ELSE r4
      r6 == IF r5 = <<>> /\ par # NoEvent
            THEN << Relation(me, par, "dependency", "", -1, reliable) >> ELSE r5
  IN r6

Cascade(me, ev_ssid, par, f, head_tid, reliable, map) ==
  LET r1 == IF par # NoEvent /\ f.kubun = "adnominal"
            THEN << Relation(me, par, "adnominal", "", head_tid, reliable) >> ELSE <<>>
      r2 == IF par # NoEvent /\ f.kubun = "complement"
            THEN r1 \o << Relation(me, par, "complement", "", head_tid, reliable) >> ELSE r1
      r3 == IF r2 = <<>> THEN DiscourseRelations(me, ev_ssid, f.disc, map) ELSE r2
      r4 == IF r3 = <<>> /\ par # NoEvent
            THEN FunctionRelations(me, par, f.func, head_tid, reliable) ELSE r3
      r5 == IF r4 = <<>> /\ par # NoEvent /\ f.dpndtype = "P"
            THEN << Relation(me, par, "parallel", "", -1, reliable) >> ELSE r4
      r6 == IF r5 = <<>> /\ par # NoEvent
            THEN << Relation(me, par, "dependency", "", -1, reliable) >> ELSE r5
  IN r6

\* RelationsBuilder._get_outgoing_relations(event) for the object i of the
\* graph g whose end phrase has the features f: the relations it creates
GetOutgoingRelations(evs, sents, g, i, f, map) ==
  LET ev   == evs[i]
      par  == FindParent(evs, sents, i)
      me   == Ref(g, i, ev.evid)
      pref == IF par = None THEN NoEvent ELSE Ref(g, par, evs[par].evid)
  IN Cascade(me, ev.ssid, pref, f, sents[ev.sentence].tags[ev.end + 1].parent_id,
             Reliable(evs, sents, i, par), map)

\* RelationsBuilder.__call__ on the next event of the graph, as called for
\* each event in turn once DocumentBuilder has returned; f is what the call
\* reads from the end phrase of the event.
ResolveWith(f) ==
  /\ pc = "relations"
  /\ cursor < Len(events)
  /\ LET i    == cursor + 1
         par  == FindParent(events, sentences, i)
         rels == GetOutgoingRelations(events, sentences, gen, i, f, ssid_tid_event_map)
         evs1 == [ events EXCEPT ![i].parent = IF par # None THEN par ELSE @ ]
     IN events' = AttachAll(evs1, gen, rels)
  /\ cursor' = cursor + 1
  /\ pc' = IF cursor' = Len(events) THEN "done" ELSE "relations"
  /\ UNCHANGED << blists, gen, ssid, evid, evid_event_map, ssid_tid_event_map,
                  ssid_tid_bid_map, ssid_tid_tag_map, sentences, dump, loaded, tokens,
                  raised, text_vars >>

ResolveRelations == \E f \in EndFeatures : ResolveWith(f)

\* ------------------------------------------------------------------ export
\* Sentence.mrphs: the stored string of a loaded sentence, else the string
\* computed from the phrases of the parsed sentence (here: their ids)
SentenceMrphs(sent) ==
  IF sent.mrphs_ # <<>> THEN sent.mrphs_[1] ELSE [ p \in 1..Len(sent.tags) |-> p - 1 ]

\* Event.surf and the other text properties: the stored string of a loaded
\* event, else the text realized from the phrases of the event's span
EventSurf(ev) ==
  IF ev.surf_ # <<>> THEN ev.surf_[1] ELSE << ev.ssid, ev.start, ev.head, ev.end >>

\* Sentence.to_dict
SentenceToDict(sent) ==
  [ sid |-> sent.sid, ssid |-> sent.ssid, mrphs |-> SentenceMrphs(sent) ]

\* Relation.to_dict
RelationToDict(r) ==
  [ event_id |-> r.head.evid, label |-> r.label, surf |-> r.surf,
    reliable |-> r.reliable, head_tid |-> r.head_tid ]

\* Event.to_dict
EventToDict(ev) ==
  [ event_id |-> ev.evid, sid |-> ev.sid, ssid |-> ev.ssid,
    rel |-> [ k \in 1..Len(ev.outgoing_relations) |-> RelationToDict(ev.outgoing_relations[k]) ],
    surf |-> EventSurf(ev) ]

\* the events of a graph, sentence by sentence in appearance order
RECURSIVE FlatEvents(_, _)
FlatEvents(sents, k) ==
  IF k = 0 THEN <<>> ELSE FlatEvents(sents, k - 1) \o sents[k].events

\* EventGraph.to_dict
GraphToDict(sents, evs) ==
  LET flat == FlatEvents(sents, Len(sents))
  IN [ sentences |-> [ k \in 1..Len(sents) |-> SentenceToDict(sents[k]) ],
       events    |-> [ k \in 1..Len(flat) |-> EventToDict(evs[flat[k]]) ] ]

\* the caller exports the finished graph
ToDict ==
  /\ pc = "done"
  /\ dump # << GraphToDict(sentences, events) >>
  /\ dump' = << GraphToDict(sentences, events) >>
  /\ UNCHANGED << blists, pc, gen, ssid, evid, evid_event_map, ssid_tid_event_map,
                  ssid_tid_bid_map, ssid_tid_tag_map, sentences, events, cursor, loaded,
                  tokens, raised, text_vars >>

\* ------------------------------------------------------------------ load
\* JsonSentenceBuilder.__call__ for each sentence dictionary in turn
LoadSentences(sentence_dumps) ==
  [ k \in 1..Len(sentence_dumps) |->
      [ sid |-> sentence_dumps[k].sid, ssid |-> sentence_dumps[k].ssid, tags |-> <<>>,
        events |-> <<>>, mrphs_ |-> << sentence_dumps[k].mrphs >> ] ]

\* Event.__init__ and the stored strings of JsonEventBuilder.__call__: the
\* event gets the counter value id and the sid and ssid of its sentence
JsonEvent(sents, si, id, event_dump) ==
  [ sentence |-> si, evid |-> id, sid |-> sents[si].sid, ssid |-> sents[si].ssid,
    start |-> None, head |-> None, end |-> None,
    parent |-> None, children |-> <<>>,
    outgoing_relations |-> <<>>, incoming_relations |-> <<>>,
    surf_ |-> << event_dump.surf >> ]

\* The second loop of JsonDocumentBuilder.__call__ over the first k event
\* dictionaries: the sentences, events, evid -> event table and counter
RECURSIVE LoadEvents(_, _, _, _, _, _)
LoadEvents(sents, map, counter, g, event_dumps, k) ==
  IF k = 0 THEN [ sents |-> sents, evs |-> <<>>, map |-> map, evid |-> counter ]
  ELSE LET st == LoadEvents(sents, map, counter, g, event_dumps, k - 1)
           d  == event_dumps[k]
           si == d.ssid + 1
           ev == JsonEvent(st.sents, si, st.evid, d)
       IN [ sents |-> [ st.sents EXCEPT ![si].events = Append(@, k) ],
            evs   |-> Append(st.evs, ev),
            map   |-> Put(st.map, ev.evid, Ref(g, k, ev.evid)),
            evid  |-> NextEvid(st.evid) ]

\* Relation.__init__ as called by JsonRelationBuilder.__call__
JsonRelationUnreliable(modifier, head, d) ==
  Relation(modifier, head, d.label, d.surf, d.head_tid, FALSE)

JsonRelation(modifier, head, d) ==
  Relation(modifier, head, d.label, d.surf, d.head_tid, d.reliable)

\* the relation dictionaries of the event dictionaries, in order, each with
\* the event_id of the event dictionary that holds it
RECURSIVE RelationDumps(_, _)
RelationDumps(event_dumps, k) ==
  IF k = 0 THEN <<>>
  ELSE RelationDumps(event_dumps, k - 1) \o
       [ j \in 1..Len(event_dumps[k].rel) |->
           [ modifier_evid |-> event_dumps[k].event_id, d |-> event_dumps[k].rel[j] ] ]

\* JsonRelationBuilder.__call__ for each relation dictionary in turn; every
\* referenced evid is a key of the table (else the lookup raises KeyError)
RECURSIVE LoadRelations(_, _, _, _)
LoadRelations(evs, map, g, rds) ==
  IF rds = <<>> THEN evs
  ELSE LET rd == Head(rds)
           r  == JsonRelation(map[rd.modifier_evid], map[rd.d.event_id], rd.d)
       IN LoadRelations(Attach(evs, g, r), map, g, Tail(rds))

\* the dictionaries handed to EventGraph.load: an exported dictionary whose
\* event ids are renamed one-to-one, in the events and in their relations
Renamings(d) ==
  LET ids == { d.events[k].event_id : k \in 1..Len(d.events) }
      n   == Cardinality(ids)
  IN { pi \in [ids -> ids] :
         \/ \A a \in ids : pi[a] = a
         \/ \A a \in ids : pi[a] = (a + 1) % n }

Rename(d, pi) ==
  [ sentences |-> d.sentences,
    events |-> [ k \in 1..Len(d.events) |->
                   [ d.events[k] EXCEPT
                       !.event_id = pi[@],
                       !.rel = [ j \in 1..Len(@) |-> [ @[j] EXCEPT !.event_id = pi[@] ] ] ] ] ]

\* EventGraph.load on a dictionary: EventGraph(), JsonDocumentBuilder.__call__
\* and the relation loop.
Load ==
  /\ pc = "idle"
  /\ gen < MaxGraphs
  /\ dump # <<>>
  /\ \E pi \in Renamings(dump[1]) :
       LET d    == Rename(dump[1], pi)
           g    == gen + 1
           s0   == LoadSentences(d.sentences)
           st   == LoadEvents(s0, evid_event_map, evid, g, d.events, Len(d.events))
           rds  == RelationDumps(d.events, Len(d.events))
       IN /\ \A k \in 1..Len(rds) :
               {rds[k].modifier_evid, rds[k].d.event_id} \subseteq DOMAIN st.map
          /\ gen' = g
          /\ ssid' = ssid + Len(d.sentences)
          /\ evid' = st.evid
          /\ evid_event_map' = st.map
          /\ sentences' = st.sents
          /\ events' = LoadRelations(st.evs, st.map, g, rds)
          /\ loaded' = << d >>
  /\ pc' = "done"
  /\ cursor' = 0
  /\ UNCHANGED << blists, ssid_tid_event_map, ssid_tid_bid_map, ssid_tid_tag_map, dump,
                  tokens, raised, text_vars >>

\* The keys the loader reads, each with the step that reads it: the keys of
\* a sentence dictionary, the keys of an event dictionary ("surf" stands for
\* its thirteen text keys), and the keys of an event dictionary and of its
\* relation dictionaries read when the relations are loaded ("event_id" of
\* an event is read once per relation it lists).
RequiredKeys(d) ==
  { [ by |-> "JsonSentenceBuilder", k |-> k, j |-> 0, key |-> key ] :
      k \in 1..Len(d.sentences), key \in {"sid", "ssid", "mrphs", "reps"} }
  \cup { [ by |-> "JsonDocumentBuilder", k |-> k, j |-> 0, key |-> "ssid" ] :
           k \in 1..Len(d.events) }
  \cup { [ by |-> "JsonEventBuilder", k |-> k, j |-> 0, key |-> key ] :
           k \in 1..Len(d.events), key \in {"surf", "pas", "features"} }
  \cup { [ by |-> "EventGraph.load", k |-> k, j |-> 0, key |-> "rel" ] :
           k \in 1..Len(d.events) }
  \cup { [ by |-> "EventGraph.load", k |-> k, j |-> 1, key |-> "event_id" ] :
           k \in { x \in 1..Len(d.events) : d.events[x].rel # <<>> } }
  \cup UNION { { [ by |-> "JsonRelationBuilder", k |-> k, j |-> j, key |-> key ] :
                   j \in 1..Len(d.events[k].rel),
                   key \in {"event_id", "label", "surf", "head_tid", "reliable"} } :
               k \in 1..Len(d.events) }

\* evg.document once the load has stopped in the step `by`: doc is the
\* Document that JsonDocumentBuilder.__call__ assigns in its last statement
DocumentAttachedFirst(by, doc) == << doc >>

DocumentAttached(by, doc) ==
  IF by \in {"EventGraph.load", "JsonRelationBuilder"} THEN << doc >> ELSE <<>>

\* EventGraph.load on a dictionary that lacks the key m: what the call
\* leaves behind when the KeyError reaches the caller
LoadUntilMissing(d, m, g) ==
  LET s0   == LoadSentences(d.sentences)
      upto == IF m.by \in {"JsonDocumentBuilder", "JsonEventBuilder"} THEN m.k - 1
              ELSE IF m.by = "JsonSentenceBuilder" THEN 0 ELSE Len(d.events)
      st   == LoadEvents(s0, evid_event_map, evid, g, d.events, upto)
      rds  == RelationDumps(d.events, IF m.j = 0 THEN m.k - 1 ELSE m.k)
      done == IF m.by \in {"EventGraph.load", "JsonRelationBuilder"}
              THEN SubSeq(rds, 1, IF m.j = 0 THEN Len(rds)
                                  ELSE Len(rds) - Len(d.events[m.k].rel) + m.j - 1)
              ELSE <<>>
  IN [ ssid |-> IF m.by = "JsonSentenceBuilder" THEN ssid + m.k - 1
                ELSE ssid + Len(d.sentences),
       evid |-> IF m.by = "JsonEventBuilder" /\ m.key \in {"pas", "features"}
                THEN NextEvid(st.evid) ELSE st.evid,
       map  |-> st.map,
       document |-> DocumentAttached(m.by, [ sentences |-> st.sents,
                                             events |-> LoadRelations(st.evs, st.map, g, done) ]) ]

\* EventGraph.load on a dictionary in which one key that the loader reads
\* is missing
LoadMissingKey ==
  /\ pc = "idle"
  /\ gen < MaxGraphs
  /\ dump # <<>>
  /\ \E m \in RequiredKeys(dump[1]) :
       LET d   == dump[1]
           rds == RelationDumps(d.events, Len(d.events))
           st  == LoadUntilMissing(d, m, gen + 1)
       IN /\ \A k \in 1..Len(rds) :
               {rds[k].modifier_evid, rds[k].d.event_id} \subseteq
                 { d.events[x].event_id : x \in 1..Len(d.events) }
          /\ gen' = gen + 1
          /\ ssid' = st.ssid
          /\ evid' = st.evid
          /\ evid_event_map' = st.map
          /\ sentences' = IF st.document = <<>> THEN <<>> ELSE st.document[1].sentences
          /\ events' = IF st.document = <<>> THEN <<>> ELSE st.document[1].events
          /\ loaded' = IF st.document = <<>> THEN <<>> ELSE << d >>
          /\ raised' = Error("KeyError", m.by)
  /\ pc' = "failed"
  /\ cursor' = 0
  /\ UNCHANGED << blists, ssid_tid_event_map, ssid_tid_bid_map, ssid_tid_tag_map, dump,
                  tokens, text_vars >>

\* ------------------------------------------------------------------ tokens
\* The arguments of a predicate (event.arguments) as TokenBuilder reads them:
\* the case, the flag ("C" overt, "O" zero anaphora, "E" exophora), the
\* sentence distance and the phrase id (an exophora has no phrase); own are
\* the head and the end phrase of the predicate, which are not its arguments.
CaseOf(k) == IF k = 1 THEN "ga" ELSE IF k = 2 THEN "wo" ELSE IF k = 3 THEN "ni" ELSE "de"

Arguments(n, own) ==
  { a \in [ flag : {"C", "O", "E"}, sdist : {0}, tid : -1..(n - 1) ] :
      /\ (a.flag = "E") <=> (a.tid = -1)
      /\ a.tid \notin own }

ArgumentLists(n, own) ==
  UNION { [1..k -> Arguments(n, own)] : k \in 0..MaxArgs }

\* Builder.stid_bid_map.get((ssid, tid), -1)
Bid(s, t) == Get(ssid_tid_bid_map, <<s, t>>, -1)

\* Token.key[1:]: the (sentence, bunsetsu, phrase) key of a token
Key(s, t) == << s, Bid(s, t), t >>

\* pyknp Tag.children of the phrase t
TagChildren(tags, t) == { c \in 0..(Len(tags) - 1) : tags[c + 1].parent_id = t }

\* TokenBuilder.add_children: the (parent, child) links of the child tokens
\* hung, level by level, below the token of phrase t
RECURSIVE AddChildren(_, _, _)
AddChildren(tags, t, sentinels) ==
  UNION { IF c \in sentinels \/ tags[c + 1].head \/ tags[c + 1].end
          THEN {}
          ELSE { <<t, c>> } \cup AddChildren(tags, c, sentinels) : c \in TagChildren(tags, t) }

\* TokenBuilder.add_compound_phrase_component on the token of phrase t of
\* sentence s: the links below the compound tokens stacked on it, and the
\* (token, parent) pointers set
RECURSIVE AddCompoundPhraseComponent(_, _, _)
AddCompoundPhraseComponent(tags, s, t) ==
  IF Get(ssid_tid_tag_map, <<s, t + 1>>, None) # None /\ tags[t + 2].compound
  THEN LET up == AddCompoundPhraseComponent(tags, s, t + 1)
       IN [ children |-> AddChildren(tags, t + 1, {t}) \cup up.children \cup { <<t + 1, t>> },
            parent   |-> up.parent \cup { <<t, t + 1>> } ]
  ELSE [ children |-> {}, parent |-> {} ]

\* Token.__init__ for a head token, with the links of the tokens around it
Token(s, t, tagged, exophora, omitted_case, children, parent) ==
  [ ssid |-> s, bid |-> Bid(s, t), tid |-> t, tagged |-> tagged, exophora |-> exophora,
    omitted_case |-> omitted_case, children |-> children, parent |-> parent ]

\* TokenBuilder.dispatch_token_to_argument
DispatchTokenToArgument(tags, ev_ssid, case, arg) ==
  LET s      == ev_ssid - arg.sdist
      tagged == Get(ssid_tid_tag_map, <<s, arg.tid>>, None) # None
  IN IF arg.flag = "E" THEN Token(s, arg.tid, FALSE, TRUE, case, {}, {})
     ELSE IF arg.flag = "O" THEN Token(s, arg.tid, tagged, FALSE, case, {}, {})
     ELSE LET up == AddCompoundPhraseComponent(tags, s, arg.tid)
          IN Token(s, arg.tid, tagged, FALSE, "",
                   AddChildren(tags, arg.tid, {}) \cup up.children, up.parent)

\* head.parent of a head token (None: it has none)
ParentOf(token) ==
  IF \E l \in token.parent : l[1] = token.tid
  THEN (CHOOSE l \in token.parent : l[1] = token.tid)[2]
  ELSE None

\* argument_head_tokens of TokenBuilder.__call__: the phrases of the head
\* tokens and of their parents, per argument
HeadTids(token) == { token.tid } \cup ({ ParentOf(token) } \ { None })

\* resolver of _resolve_duplication on the children of the token of phrase p:
\* the links it pops
RECURSIVE Popped(_, _, _, _)
Popped(children, s, p, head_keys) ==
  UNION { IF Key(s, l[2]) \in head_keys
          THEN { l }
          ELSE Popped(children, s, l[2], head_keys) : l \in { x \in children : x[1] = p } }

\* TokenBuilder._resolve_duplication, as it leaves the token tree of one head:
\* the resolver runs from the head, then from its parent
ResolveDuplication(token, head_keys) ==
  LET c1 == token.children \ Popped(token.children, token.ssid, token.tid, head_keys)
      c2 == IF ParentOf(token) = None THEN c1
            ELSE c1 \ Popped(c1, token.ssid, ParentOf(token), head_keys)
  IN [ token EXCEPT !.children = c2 ]

\* TokenBuilder.dispatch_token_to_predicate
DispatchTokenToPredicate(tags, ev, sentinels) ==
  LET below == AddChildren(tags, ev.head, sentinels)
  IN IF ev.head # ev.end
     THEN LET up == AddCompoundPhraseComponent(tags, ev.ssid, ev.end)
          IN Token(ev.ssid, ev.head, TRUE, FALSE, "",
                   below \cup AddChildren(tags, ev.end, sentinels \cup { ev.head })
                         \cup up.children \cup { << ev.end, ev.head >> },
                   up.parent \cup { << ev.head, ev.end >> })
     ELSE Token(ev.ssid, ev.head, TRUE, FALSE, "", below, {})

\* Token.root
RECURSIVE Root(_, _)
Root(parent, t) ==
  IF \E l \in parent : l[1] = t THEN Root(parent, (CHOOSE l \in parent : l[1] = t)[2]) ELSE t

\* Token.modifiers
RECURSIVE Modifiers(_, _)
Modifiers(children, t) ==
  UNION { { l[2] } \cup Modifiers(children, l[2]) : l \in { x \in children : x[1] = t } }

\* Token.to_list: the phrases of the span of a head token
ToList(token) ==
  LET r == Root(token.parent, token.tid)
  IN { r } \cup Modifiers(token.children, r)

\* dispatch_token_to_argument on an overt argument whose target is not in the
\* (sentence, phrase) -> tag table: add_children reads parent_token.tag.children
\* of a token whose tag is None
DispatchRaises(ev_ssid, arg) ==
  /\ arg.flag = "C"
  /\ Get(ssid_tid_tag_map, << ev_ssid - arg.sdist, arg.tid >>, None) = None

\* predicate.head_token before dispatch_token_to_predicate has set it
NoToken == Token(None, None, FALSE, FALSE, "", {}, {})

\* the case under which event.arguments holds the k-th argument: the case
\* the argument names, else the case of its place
ArgCase(k, arg) == IF "case" \in DOMAIN arg THEN arg.case ELSE CaseOf(k)

\* TokenBuilder.__call__ on the next event, whose arguments are args
TokenBuilderCall(args) ==
  /\ pc \in {"relations", "done"}
  /\ loaded = <<>>
  /\ Len(tokens) < Len(events)
  /\ LET ev        == events[Len(tokens) + 1]
         tags      == sentences[ev.sentence].tags
         bad       == { k \in 1..Len(args) : DispatchRaises(ev.ssid, args[k]) }
         upto      == IF bad = {} THEN Len(args)
                      ELSE (CHOOSE k \in bad : \A x \in bad : k <= x) - 1
         heads     == [ k \in 1..upto |->
                          DispatchTokenToArgument(tags, ev.ssid, ArgCase(k, args[k]), args[k]) ]
         head_keys == UNION { { Key(heads[k].ssid, t) : t \in HeadTids(heads[k]) } :
                                k \in 1..upto }
         resolved  == [ k \in 1..upto |-> ResolveDuplication(heads[k], head_keys) ]
         sentinels == UNION { IF heads[k].tagged THEN HeadTids(heads[k]) ELSE {} :
                                k \in 1..upto }
     IN IF bad = {}
        THEN /\ tokens' = Append(tokens, [ args |-> args, arguments |-> resolved,
                                           predicate |-> DispatchTokenToPredicate(tags, ev, sentinels) ])
             /\ UNCHANGED << pc, raised >>
        ELSE /\ tokens' = Append(tokens, [ args |-> args, arguments |-> heads,
                                           predicate |-> NoToken ])
             /\ pc' = "failed"
             /\ raised' = Error("AttributeError", "TokenBuilder.add_children")
  /\ UNCHANGED << blists, gen, ssid, evid, evid_event_map, ssid_tid_event_map,
                  ssid_tid_bid_map, ssid_tid_tag_map, sentences, events, cursor,
                  dump, loaded, text_vars >>

DispatchTokens ==
  /\ Len(tokens) < Len(events)
  /\ \E args \in ArgumentLists(Len(sentences[events[Len(tokens) + 1].sentence].tags),
                               { events[Len(tokens) + 1].head, events[Len(tokens) + 1].end }) :
       TokenBuilderCall(args)

Next ==
  \/ BuildSentence
  \/ ResolveRelations
  \/ ToDict
  \/ Reset
  \/ Load
  \/ LoadMissingKey

Spec == Init /\ [][Next]_vars

\* ------------------------------------------------------------------ discourse
\* the largest number of phrases of a sentence of the documents below
MaxDiscTags == 4

\* sentences whose phrases each depend on the next one and whose clauses
\* have their head at their end
DiscTags(n) ==
  { t \in TagsOfLength(n) :
      \A p \in 1..n : t[p].head = t[p].end /\ (p < n => t[p].parent_id = p) }

\* documents of a long and a short sentence, in both orders
DiscDocs ==
  { d \in { << [sid |-> SidOf(1), tags |-> a], [sid |-> SidOf(2), tags |-> b] >> :
              a \in DiscTags(1) \cup DiscTags(MaxDiscTags),
              b \in DiscTags(1) \cup DiscTags(MaxDiscTags) } :
      /\ Len(d[1].tags) # Len(d[2].tags)
      /\ ClauseEnds(d) <= MaxClauses }

InitDisc == InitOf(DiscDocs)

SpecDisc == InitDisc /\ [][Next]_vars

\* ------------------------------------------------------------------ token dispatch
\* the number of phrases of the sentences below
MaxTokTags == 3

\* one-sentence documents with compound particles, which are neither the
\* head nor the end of a clause
TokDocs ==
  { d \in { << [sid |-> SidOf(1), tags |-> t] >> : t \in TokTagsOfLength(MaxTokTags) } :
      /\ ClauseEnds(d) <= MaxClauses - 1
      /\ \A p \in 1..Len(d[1].tags) :
           d[1].tags[p].compound => ~ d[1].tags[p].head /\ ~ d[1].tags[p].end }

InitTok == InitOf(TokDocs)

NextTok ==
  \/ BuildSentence
  \/ DispatchTokens

SpecTok == InitTok /\ [][NextTok]_vars

\* ------------------------------------------------------------------ text
\* the number of phrases of the sentences whose events are put into words
MaxTextTags == 3
\* the largest number of arguments of a predicate of these sentences
MaxTextArgs == 1
\* the largest number of reads of the text properties of a graph
MaxReads == 2

\* A morpheme (pyknp Morpheme) as the realization reads it: its part of speech
\* (hinsi), its surface form (midasi), its base form (genkei), and whether its
\* feature string carries the conjugation mark or the mark that ends the
\* predicate's notation (conj), and which end of the predicate's notation it
\* is marked as (hyouki).  A string of the morpheme list (an exophora or an
\* omitted case) has the part of speech "str".
Mrph(hinsi, midasi, genkei, conj, hyouki) ==
  [ hinsi |-> hinsi, midasi |-> midasi, genkei |-> genkei, conj |-> conj, hyouki |-> hyouki ]

Str(s) == Mrph("str", s, s, FALSE, "")

Noun      == Mrph("noun", "hon", "hon", FALSE, "")
Particle  == Mrph("particle", "wo", "wo", FALSE, "")
Verb      == Mrph("verb", "yonda", "yomu", TRUE, "both")
Adjective == Mrph("adjective", "utsukushikatta", "utsukushii", TRUE, "both")
Desu      == Mrph("auxiliary", "desu", "desu", TRUE, "")

\* the morphemes of a phrase that is no part of a predicate
PlainMrphs == { << Noun >>, << Noun, Particle >> }
\* the morphemes of a phrase that ends a clause
ClauseMrphs == { << Verb >>, << Adjective, Desu >> }

\* the bunsetsu ids of n phrases: a phrase opens a bunsetsu or continues the
\* one of the phrase before it
BidsOfLength(n) ==
  { b \in [1..n -> 0..(n - 1)] :
      b[1] = 0 /\ \A p \in 2..n : b[p] \in { b[p - 1], b[p - 1] + 1 } }

\* the phrases of a sentence whose last phrase is the main predicate; the
\* phrases before it are plain, a clause of their own, or (the one before the
\* last) the head of the main clause, a noun followed by the clause's end
TextTags(n) ==
  { [ p \in 1..n |->
        [ head |-> r[p].role \in {"clause", "head"} \/ (p = n /\ r[n - 1].role # "head"),
          end  |-> r[p].role = "clause" \/ p = n,
          parent_id |-> IF p = n THEN -1 ELSE IF r[p].last THEN n - 1 ELSE p,
          bid |-> b[p], compound |-> FALSE,
          mrphs |-> r[p].mrphs ] ] :
      r \in { x \in [ 1..n -> [ role : {"plain", "clause", "head"}, last : BOOLEAN,
                                mrphs : PlainMrphs \cup ClauseMrphs ] ] :
                /\ x[n].role = "clause" /\ x[n].last
                /\ \A p \in 1..n :
                     /\ x[p].role = "head" => p = n - 1 /\ x[p].mrphs = << Noun >>
                     /\ x[p].role = "plain" => x[p].mrphs \in PlainMrphs
                     /\ x[p].role = "clause" => x[p].mrphs \in ClauseMrphs
                     /\ p = n - 1 => x[p].last },
      b \in BidsOfLength(n) }

TextDocs == { << [sid |-> SidOf(1), tags |-> t] >> : t \in TextTags(MaxTextTags) }

\* the arguments of the main predicate: as Arguments, with their case (the
\* katakana ga or ni), and with targets in the sentence before the event's,
\* which the first sentence of a document lacks
TextArguments(n, own) ==
  { a \in [ flag : {"C", "O", "E"}, sdist : {0, 1}, tid : -1..(n - 1), case : {"ga", "ni"} ] :
      /\ (a.flag = "E") <=> (a.tid = -1)
      /\ a.flag = "E" => a.sdist = 0
      /\ a.flag = "C" => a.case = "ga"
      /\ a.sdist = 0 => a.tid \notin own }

TextArgumentLists(n, own) ==
  UNION { [1..k -> TextArguments(n, own)] : k \in 0..MaxTextArgs }

\* PAS_ORDER.get(case, 99): the table has the katakana ga and wo; its third
\* key is the kanji for "two", so the katakana ni is not a key
PasOrder(case) == IF case = "ga" THEN 1 ELSE IF case = "wo" THEN 2 ELSE 99

\* a token of the span of a head token: the head token itself, or the token
\* of a phrase below or above it
Item(s, b, t, omitted_case, exophora, tagged) ==
  [ ssid |-> s, bid |-> b, tid |-> t, omitted_case |-> omitted_case,
    exophora |-> exophora, tagged |-> tagged ]

\* Token.key
ItemKey(it) == << PasOrder(it.omitted_case), it.ssid, it.bid, it.tid >>

\* the order of Token.__lt__: tuples compare from the left
KeyLess(a, b) ==
  \E k \in 1..4 : a[k] < b[k] /\ \A j \in 1..(k - 1) : a[j] = b[j]

\* sorted(...) on tokens of distinct keys
RECURSIVE SortItems(_)
SortItems(S) ==
  IF S = {} THEN <<>>
  ELSE LET m == CHOOSE x \in S : \A y \in S \ {x} : KeyLess(ItemKey(x), ItemKey(y))
       IN << m >> \o SortItems(S \ {m})

\* Token.to_list of a head token, as tokens
TokenItems(token) ==
  SortItems({ IF t = token.tid
              THEN Item(token.ssid, token.bid, t, token.omitted_case, token.exophora, token.tagged)
              ELSE Item(token.ssid, Bid(token.ssid, t), t, "", FALSE, TRUE) :
              t \in ToList(token) })

RECURSIVE Flatten(_)
Flatten(ss) == IF ss = <<>> THEN <<>> ELSE Head(ss) \o Flatten(Tail(ss))

\* Event._to_tokens without the tokens of modifying events: the head tokens
\* that are kept, expanded, made unique by key (the first one stays), sorted
ToTokens(ev, tags, tok, exclude_exophora) ==
  LET Kept(a) ==
        IF a.omitted_case # "" THEN ~ (exclude_exophora /\ a.exophora)
        ELSE IF a.tid < ev.head /\ (tags[a.tid + 1].head \/ tags[a.tid + 1].end) THEN FALSE
        ELSE ~ (ev.end < a.tid)
      heads == << tok.predicate >> \o SelectSeq(tok.arguments, Kept)
      flat  == Flatten([ k \in 1..Len(heads) |-> TokenItems(heads[k]) ])
      first == { k \in 1..Len(flat) :
                   \A j \in 1..(k - 1) : ItemKey(flat[j]) # ItemKey(flat[k]) }
  IN SortItems({ flat[k] : k \in first })

\* group_tokens: the sorted tokens in buckets by (sentence, bunsetsu), the
\* buckets in the order of their first token
RECURSIVE GroupTokens(_)
GroupTokens(items) ==
  IF items = <<>> THEN <<>>
  ELSE LET Same(x) == x.ssid = Head(items).ssid /\ x.bid = Head(items).bid
           Other(x) == ~ Same(x)
       IN << SelectSeq(items, Same) >> \o GroupTokens(SelectSeq(items, Other))

\* token.tag.mrph_list(); a token without a tag has none to read
TagMrphs(tags, it) == tags[it.tid + 1].mrphs

\* the morphemes of an omitted argument up to the end of its content words
RECURSIVE ContentWords(_, _)
ContentWords(mrphs, exists_content_word) ==
  IF mrphs = <<>> THEN <<>>
  ELSE LET is_content_word == Head(mrphs).hinsi \notin {"particle", "special", "copula"}
       IN IF ~ is_content_word /\ exists_content_word THEN <<>>
          ELSE << Head(mrphs) >> \o ContentWords(Tail(mrphs), exists_content_word \/ is_content_word)

\* the exophora (token.exophora) of an argument whose flag is E
Exophora == "author"

\* Event._tokens_to_mrphs on one group of tokens
TokensToMrphs(tags, group) ==
  Flatten([ k \in 1..Len(group) |->
              LET it == group[k]
              IN IF it.omitted_case # ""
                 THEN (IF it.exophora THEN << Str(Exophora) >>
                       ELSE ContentWords(TagMrphs(tags, it), FALSE))
                      \o << Str(it.omitted_case) >>
                 ELSE TagMrphs(tags, it) ])

\* the tokens whose tag _tokens_to_mrphs reads although they have none
Untagged(items) ==
  { k \in 1..Len(items) : ~ items[k].tagged /\ ~ (items[k].omitted_case # "" /\ items[k].exophora) }

\* an exception that leaves a function of the realization
Raise(error, by) == [ error |-> error, by |-> by, g |-> -1, i |-> -1 ]

\* the inner loop of Event._find_truncated_position over the morphemes of one
\* token, from the last one (index idx - 1) down; offset is mrph_index_offset.
\* The two exceptions read mrphs[mrph_index_offset - 1].
RECURSIVE ScanMrphs(_, _, _, _)
ScanMrphs(mrphs, idx, offset, g) ==
  IF idx = 0 THEN [ error |-> "none", by |-> "", g |-> g, i |-> -1 ]
  ELSE LET mrph == mrphs[idx]
           desu == mrph.hinsi = "auxiliary" /\ mrph.genkei = "desu" /\ 0 < offset
           ja   == mrph.hinsi = "copula" /\ mrph.midasi = "ja" /\ 0 < offset
       IN IF desu /\ offset > Len(mrphs) THEN Raise("IndexError", "Event._find_truncated_position")
          ELSE IF desu /\ mrphs[offset].hinsi = "adjective"
          THEN [ error |-> "", by |-> "", g |-> g, i |-> offset + (idx - 1) - 1 ]
          ELSE IF ja /\ offset > Len(mrphs) THEN Raise("IndexError", "Event._find_truncated_position")
          ELSE IF ja /\ mrphs[offset].conj
          THEN [ error |-> "", by |-> "", g |-> g, i |-> offset + (idx - 1) - 1 ]
          ELSE IF mrph.conj /\ mrph.genkei \notin {"noda", "nda"}
          THEN [ error |-> "", by |-> "", g |-> g, i |-> offset + (idx - 1) ]
          ELSE ScanMrphs(mrphs, idx - 1, offset, g)

\* Event._find_truncated_position from the k-th token of the g-th group on:
\* the (group, morpheme) position, counted from 0, or the exception raised.
\* The tokens before the predicate's head token are skipped, and are not
\* counted in mrph_index_offset.
RECURSIVE FindFrom(_, _, _, _, _, _, _)
FindFrom(tags, groups, g, k, seen_head, offset, head_key) ==
  IF g > Len(groups) THEN Raise("ValueError", "Event._find_truncated_position")
  ELSE IF k > Len(groups[g]) THEN FindFrom(tags, groups, g + 1, 1, seen_head, 0, head_key)
  ELSE LET it   == groups[g][k]
           seen == seen_head \/ ItemKey(it) = head_key
       IN IF ~ seen THEN FindFrom(tags, groups, g, k + 1, seen, offset, head_key)
          ELSE IF ~ it.tagged THEN Raise("AttributeError", "Event._find_truncated_position")
          ELSE LET mrphs == TagMrphs(tags, it)
                   r     == ScanMrphs(mrphs, Len(mrphs), offset, g - 1)
               IN IF r.error = "none"
                  THEN FindFrom(tags, groups, g, k + 1, seen, offset + Len(mrphs), head_key)
                  ELSE r

FindTruncatedPosition(tags, groups, head_key) ==
  FindFrom(tags, groups, 1, 1, FALSE, 0, head_key)

\* filter_relations(event.incoming_relations, [label], [tid]) is not empty for
\* a token of the group that is not omitted
HasModifier(ev, group, label) ==
  \E k \in 1..Len(group) :
    /\ group[k].omitted_case = ""
    /\ \E j \in 1..Len(ev.incoming_relations) :
         /\ ev.incoming_relations[j].label = label
         /\ ev.incoming_relations[j].head_tid = group[k].tid

\* the loop of Event._get_marker from the g-th group on; last_tid is set
\* before the loop and the loop does not assign it
RECURSIVE MarkGroups(_, _, _, _, _, _, _)
MarkGroups(ev, groups, mrphs_list, add_mark, g, last_tid, marker) ==
  IF g > Len(groups) THEN marker
  ELSE LET group  == groups[g]
           is_omitted == \E k \in 1..Len(group) : group[k].omitted_case # ""
           adn  == HasModifier(ev, group, "adnominal")
           comp == HasModifier(ev, group, "complement")
           m1 == IF adn THEN Put(marker, << g - 1, 0, "start" >>, "adnominal mark") ELSE marker
           m2 == IF comp THEN Put(m1, << g - 1, 0, "start" >>, "complement mark") ELSE m1
           m3 == IF last_tid + 1 # group[1].tid /\ last_tid # -1 /\ ~ adn /\ ~ comp
                 THEN Put(m2, << g - 1, 0, "start" >>, "|") ELSE m2
       IN IF is_omitted
          THEN MarkGroups(ev, groups, mrphs_list, add_mark, g + 1, last_tid,
                 Put(Put(marker, << g - 1, 0, "start" >>, "["),
                     << g - 1, Len(mrphs_list[g]) - 1, "end" >>, "]"))
          ELSE IF ~ add_mark
          THEN MarkGroups(ev, groups, mrphs_list, add_mark, g + 1, last_tid, marker)
          ELSE MarkGroups(ev, groups, mrphs_list, add_mark, g + 1, last_tid, m3)

\* Event._get_marker without the tokens of modifying events
GetMarker(ev, groups, mrphs_list, add_mark, normalize, pos) ==
  LET marker == MarkGroups(ev, groups, mrphs_list, add_mark, 1, -1, EmptyMap)
      last_position == << Len(mrphs_list) - 1, Len(Last(mrphs_list)) - 1 >>
  IN IF add_mark /\ ~ normalize /\ << pos.g, pos.i >> # last_position
     THEN Put(Put(marker, << pos.g, pos.i, "end" >>, "("),
              << last_position[1], last_position[2], "end" >>, ")")
     ELSE marker

\* convert_katakana_to_hiragana on a case
Hiragana(case) == "hiragana " \o case

\* mrph.repname, or midasi/midasi when the morpheme has none: the morphemes
\* above have the representative notation genkei/genkei
RepName(mrph) == mrph.genkei \o "/" \o mrph.genkei

\* the word Event._format_mrphs_list appends for a morpheme; last says that
\* the morpheme is the last one of the last group
Word(mrph, mode, normalize, last) ==
  IF mrph.hinsi = "str"
  THEN (IF PasOrder(mrph.midasi) # 99
        THEN (IF mode = "reps" THEN Hiragana(mrph.midasi) \o "/" \o Hiragana(mrph.midasi)
              ELSE Hiragana(mrph.midasi))
        ELSE mrph.midasi)
  ELSE IF mode = "reps" THEN RepName(mrph)
  ELSE IF normalize /\ last
  THEN (IF mrph.hinsi = "auxiliary" /\ mrph.genkei = "nu" THEN mrph.midasi ELSE mrph.genkei)
  ELSE mrph.midasi

\* Event._format_mrphs_list: the marks and words in the order they are joined
FormatMrphsList(mrphs_list, mode, normalize, marker) ==
  Flatten([ g \in 1..Len(mrphs_list) |->
    Flatten([ i \in 1..Len(mrphs_list[g]) |->
      (IF << g - 1, i - 1, "start" >> \in DOMAIN marker
       THEN << marker[<< g - 1, i - 1, "start" >>] >> ELSE <<>>)
      \o << Word(mrphs_list[g][i], mode, normalize,
                 g = Len(mrphs_list) /\ i = Len(mrphs_list[g])) >>
      \o (IF << g - 1, i - 1, "end" >> \in DOMAIN marker
          THEN << marker[<< g - 1, i - 1, "end" >>] >> ELSE <<>>) ]) ])

\* what a text property gives: the words, or the exception raised
Text(words) == [ error |-> "", by |-> "", words |-> words ]

Failure(error, by) == [ error |-> error, by |-> by, words |-> <<>> ]

\* mrphs_list[:g + 1] with its last group cut to [:i + 1]
Truncated(mrphs_list, pos) ==
  LET cut == SubSeq(mrphs_list, 1, pos.g + 1)
      n   == IF pos.i + 1 < Len(Last(cut)) THEN pos.i + 1 ELSE Len(Last(cut))
  IN [ cut EXCEPT ![Len(cut)] = SubSeq(@, 1, n) ]

\* Event._to_text of the event ev whose tokens are tok
ToText(ev, tags, tok, mode, truncate, add_mark, exclude_exophora) ==
  LET items  == ToTokens(ev, tags, tok, exclude_exophora)
      groups == GroupTokens(items)
  IN IF Untagged(items) # {} THEN Failure("AttributeError", "Event._tokens_to_mrphs")
     ELSE LET mrphs_list == [ g \in 1..Len(groups) |-> TokensToMrphs(tags, groups[g]) ]
              pos        == FindTruncatedPosition(tags, groups, ItemKey(tok.predicate))
          IN IF pos.error # "" THEN Failure(pos.error, pos.by)
             ELSE LET marker == GetMarker(ev, groups, mrphs_list, add_mark, truncate, pos)
                  IN Text(FormatMrphsList(IF truncate THEN Truncated(mrphs_list, pos)
                                          ELSE mrphs_list,
                                          mode, truncate, marker))

\* the mark of a content word in the feature string of a morpheme
IsContentWord(mrph) == mrph.hinsi \in {"noun", "verb", "adjective"}

\* Event.content_rep_list_: the tokens without a tag are left out
ContentRepList(ev, tags, tok) ==
  LET items == ToTokens(ev, tags, tok, FALSE)
      reps(it) == IF ~ it.tagged THEN <<>>
                  ELSE LET mrphs == SelectSeq(TagMrphs(tags, it), IsContentWord)
                       IN [ k \in 1..Len(mrphs) |-> RepName(mrphs[k]) ]
  IN Text(Flatten([ k \in 1..Len(items) |-> reps(items[k]) ]))

\* head_base_phrase.modifiees(include_self=True): the phrase of the head
\* token and the phrases above it
RECURSIVE Modifiees(_, _)
Modifiees(parent, t) ==
  IF \E l \in parent : l[1] = t
  THEN << t >> \o Modifiees(parent, (CHOOSE l \in parent : l[1] = t)[2])
  ELSE << t >>

\* the morphemes of the predicate: those of its head phrase and of the
\* phrases above it
PredicateMrphList(tags, tok) ==
  LET tids == Modifiees(tok.predicate.parent, tok.predicate.tid)
  IN Flatten([ k \in 1..Len(tids) |-> tags[tids[k] + 1].mrphs ])

\* the loop of Predicate.mrphs: the words from the first morpheme of the
\* predicate's notation on; at the morpheme that ends the notation the
\* property returns, and only a loop that runs to its end stores the string
RECURSIVE PredicateWords(_, _)
PredicateWords(mrphs, within) ==
  IF mrphs = <<>> THEN [ returned |-> FALSE, words |-> <<>> ]
  ELSE LET m  == Head(mrphs)
           w1 == within \/ m.hyouki \in {"first", "both"}
       IN IF m.hyouki \in {"last", "both"}
          THEN [ returned |-> TRUE, words |-> << m.genkei >> ]
          ELSE LET rest == PredicateWords(Tail(mrphs), w1)
               IN [ rest EXCEPT !.words = (IF w1 THEN << m.midasi >> ELSE <<>>) \o @ ]

\* Predicate._truncate_mrphs from the morpheme of index idx - 1 down
RECURSIVE TruncateMrphs(_, _)
TruncateMrphs(mrphs, idx) ==
  IF idx = 0 THEN mrphs
  ELSE LET mrph == mrphs[idx]
       IN IF mrph.hinsi = "auxiliary" /\ mrph.genkei = "desu" /\ 1 < idx
             /\ mrphs[idx - 1].hinsi = "adjective"
          THEN SubSeq(mrphs, 1, idx - 1)
          ELSE IF mrph.hinsi = "copula" /\ mrph.midasi = "ja" /\ 1 < idx /\ mrphs[idx - 1].conj
          THEN SubSeq(mrphs, 1, idx - 1)
          ELSE IF mrph.conj /\ mrph.genkei \notin {"noda", "nda"}
          THEN SubSeq(mrphs, 1, idx)
          ELSE TruncateMrphs(mrphs, idx - 1)

\* the text properties of an event, with the parameters their functions pass
\* to Event._to_text, and the mrphs property of its predicate
Accessor(name, kind, mode, truncate, add_mark, exclude_exophora) ==
  [ name |-> name, kind |-> kind, mode |-> mode, truncate |-> truncate,
    add_mark |-> add_mark, exclude_exophora |-> exclude_exophora ]

Accessors ==
  { Accessor("surf", "surf", "mrphs", FALSE, FALSE, FALSE),
    Accessor("mrphs_with_mark", "text", "mrphs", FALSE, TRUE, FALSE),
    Accessor("normalized_mrphs", "text", "mrphs", TRUE, FALSE, FALSE),
    Accessor("normalized_mrphs_with_mark_without_exophora", "text", "mrphs", TRUE, TRUE, TRUE),
    Accessor("normalized_reps", "text", "reps", TRUE, FALSE, FALSE),
    Accessor("content_rep_list", "content", "reps", FALSE, FALSE, FALSE),
    Accessor("predicate.mrphs", "predicate", "mrphs", TRUE, FALSE, FALSE) }

\* the function a text property of a built event calls: Event.surf_ ...
\* Event.content_rep_list_; "surf" marks the words that _mrphs_to_surf joins
\* without spaces
Realize(ev, tags, tok, a) ==
  IF a.kind = "content" THEN ContentRepList(ev, tags, tok)
  ELSE LET r == ToText(ev, tags, tok, a.mode, a.truncate, a.add_mark, a.exclude_exophora)
       IN IF a.kind = "surf" /\ r.error = "" THEN [ r EXCEPT !.words = << "surf" >> \o @ ] ELSE r

\* a read of the property a of the event i (Event.surf ... Event.content_rep_list,
\* Predicate.mrphs): the stored value if there is one, else the value the
\* property computes.  runs records each read, and whether it computed.
ReadAccessor(i, a) ==
  /\ pc = "done"
  /\ loaded = <<>>
  /\ Len(tokens) = Len(events)
  /\ raised = NoError
  /\ Len(runs) < MaxReads
  /\ runs # <<>> => runs[1].event = i /\ runs[1].accessor = a.name
  /\ LET ev   == events[i]
         tags == sentences[ev.sentence].tags
         tok  == tokens[i]
         stored == IF a.kind = "predicate" THEN Get(predicate_mrphs_, i, <<>>) ELSE ev.surf_
         pw   == PredicateWords(PredicateMrphList(tags, tok), FALSE)
         r    == IF stored # <<>> THEN Text(stored[1])
                 ELSE IF a.kind = "predicate" THEN Text(pw.words)
                 ELSE Realize(ev, tags, tok, a)
     IN /\ runs' = Append(runs, [ event |-> i, accessor |-> a.name,
                                  computed |-> (stored = <<>>), error |-> r.error,
                                  words |-> r.words ])
        /\ predicate_mrphs_' = IF a.kind = "predicate" /\ stored = <<>> /\ ~ pw.returned
                               THEN Put(predicate_mrphs_, i, << pw.words >>)
                               ELSE predicate_mrphs_
        /\ raised' = IF r.error # "" THEN Error(r.error, r.by) ELSE raised
  /\ UNCHANGED << blists, pc, gen, ssid, evid, evid_event_map, ssid_tid_event_map,
                  ssid_tid_bid_map, ssid_tid_tag_map, sentences, events, cursor,
                  dump, loaded, tokens, event_ids_, truncations >>

ReadText == \E i \in 1..Len(events) : \E a \in Accessors : ReadAccessor(i, a)

\* RelationsBuilder.__call__ where the end phrase of the event has no
\* discourse or function annotation and depends as "D"
ResolveTextRelations ==
  \E f \in { x \in EndFeatures : x.disc = <<>> /\ x.func = <<>> /\ x.dpndtype = "D" } :
    ResolveWith(f)

\* TokenBuilder.__call__ on the next event once the relations are resolved;
\* the events before the last one have no arguments
DispatchTextTokens ==
  /\ pc = "done"
  /\ Len(tokens) < Len(events)
  /\ LET i == Len(tokens) + 1
     IN \E args \in (IF i = Len(events)
                     THEN TextArgumentLists(Len(sentences[events[i].sentence].tags),
                                            { events[i].head, events[i].end })
                     ELSE { <<>> }) :
          TokenBuilderCall(args)

InitText == InitOf(TextDocs)

NextText ==
  \/ BuildSentence
  \/ ResolveTextRelations
  \/ DispatchTextTokens
  \/ ReadText

SpecText == InitText /\ [][NextText]_vars

\* --------------------------------------------------- events modifying a phrase
\* filter_relations(relations, labels, head_tids): the evids of the modifiers
\* of the relations that pass
FilterRelations(relations, labels, head_tids) ==
  LET Passes(r) == r.label \in labels /\ r.head_tid \in head_tids
      passed == SelectSeq(relations, Passes)
  IN [ k \in 1..Len(passed) |-> passed[k].modifier.evid ]

\* adnominal_events and sentential_complement_events of the phrase a token
\* of the event holds: the label is "adnominal" or "complement"
ModifyingEvents(ev, it, label) ==
  IF it.omitted_case # "" THEN <<>>
  ELSE FilterRelations(ev.incoming_relations, {label}, {it.tid})

\* the phrases that the predicate and the arguments of the i-th event hold:
\* the head tokens with the tokens below and above them
EventItems(i) ==
  LET heads == << tokens[i].predicate >> \o tokens[i].arguments
  IN UNION { { TokenItems(heads[k])[j] : j \in 1..Len(TokenItems(heads[k])) } :
               k \in 1..Len(heads) }

\* sorted(...) on a list of evids
RECURSIVE SortIds(_)
SortIds(ids) ==
  IF ids = <<>> THEN <<>>
  ELSE LET k == CHOOSE x \in 1..Len(ids) : \A y \in 1..Len(ids) : ids[x] <= ids[y]
       IN << ids[k] >> \o SortIds(SubSeq(ids, 1, k - 1) \o SubSeq(ids, k + 1, Len(ids)))

\* the two cached properties of a predicate and the label each one filters by
IdAccessors == { "adnominal_event_ids", "sentential_complement_event_ids" }

IdLabel(name) == IF name = "adnominal_event_ids" THEN "adnominal" ELSE "complement"

\* sorted(e.evid for e in self.adnominal_events) of the predicate of the i-th
\* event (and the same for the sentential complements): the events that
\* modify the head phrase and the phrases above it
PredicateEventIds(evs, toks, i, name) ==
  LET head == toks[i].predicate
      tids == Modifiees(head.parent, head.tid)
      It(t) == Item(head.ssid, Bid(head.ssid, t), t, "", FALSE, TRUE)
  IN SortIds(Flatten([ k \in 1..Len(tids) |->
                         ModifyingEvents(evs[i], It(tids[k]), IdLabel(name)) ]))

\* a read of adnominal_event_ids or sentential_complement_event_ids of the
\* predicate of the event i: the first read computes and stores the list,
\* a later read returns what is stored
ReadIds(i, name) ==
  /\ loaded = <<>>
  /\ raised = NoError
  /\ i <= Len(tokens)
  /\ Len(runs) < MaxReads
  /\ runs # <<>> => runs[1].event = i /\ runs[1].accessor = name
  /\ LET stored == Get(event_ids_, << i, name >>, <<>>)
         ids    == IF stored # <<>> THEN stored[1] ELSE PredicateEventIds(events, tokens, i, name)
     IN /\ runs' = Append(runs, [ event |-> i, accessor |-> name, computed |-> (stored = <<>>),
                                  error |-> "", words |-> ids ])
        /\ event_ids_' = IF stored = <<>> THEN Put(event_ids_, << i, name >>, << ids >>)
                         ELSE event_ids_
  /\ UNCHANGED << blists, pc, gen, ssid, evid, evid_event_map, ssid_tid_event_map,
                  ssid_tid_bid_map, ssid_tid_tag_map, sentences, events, cursor,
                  dump, loaded, tokens, raised, predicate_mrphs_, truncations >>

ReadEventIds == \E i \in 1..Len(events) : \E name \in IdAccessors : ReadIds(i, name)

\* TokenBuilder.__call__ on the next event, which has no arguments
DispatchPredicateTokens ==
  /\ Len(tokens) < Len(events)
  /\ TokenBuilderCall(<<>>)

NextIds ==
  \/ BuildSentence
  \/ ResolveTextRelations
  \/ DispatchPredicateTokens
  \/ ReadEventIds

SpecIds == InitText /\ [][NextIds]_vars

\* ------------------------------------------------------------------ truncation
\* the largest number of morphemes of the lists that are truncated
MaxMrphs == 3
\* the largest number of times a rule is applied to a list and its results
MaxApplications == 2

\* the copula ja of "janai" and the auxiliary noda in its short form
Ja   == Mrph("copula", "ja", "da", TRUE, "")
Noda == Mrph("auxiliary", "nda", "nda", TRUE, "")

\* the morpheme lists handed to the truncation rules
MrphLists ==
  UNION { [1..n -> {Noun, Particle, Verb, Adjective, Desu, Ja, Noda}] : n \in 0..MaxMrphs }

\* Argument._truncate_mrphs: the morphemes up to the end of the content words
RECURSIVE ArgumentTruncateMrphs(_, _)
ArgumentTruncateMrphs(mrphs, seen_content_word) ==
  IF mrphs = <<>> THEN <<>>
  ELSE LET is_content_word == Head(mrphs).hinsi \notin {"particle", "special", "copula"}
       IN IF ~ is_content_word /\ seen_content_word THEN <<>>
          ELSE << Head(mrphs) >>
               \o ArgumentTruncateMrphs(Tail(mrphs), seen_content_word \/ is_content_word)

\* a call of a truncation rule on the list, or on the result of the call before
Truncate(rule) ==
  /\ truncations # <<>>
  /\ Len(truncations) <= MaxApplications
  /\ \A k \in 2..Len(truncations) : truncations[k].rule = rule
  /\ LET mrphs == Last(truncations).mrphs
     IN truncations' = Append(truncations,
          [ rule |-> rule,
            mrphs |-> IF rule = "predicate" THEN TruncateMrphs(mrphs, Len(mrphs))
                      ELSE ArgumentTruncateMrphs(mrphs, FALSE) ])
  /\ UNCHANGED << blists, pc, gen, ssid, evid, evid_event_map, ssid_tid_event_map,
                  ssid_tid_bid_map, ssid_tid_tag_map, sentences, events, cursor,
                  dump, loaded, tokens, raised, runs, predicate_mrphs_, event_ids_ >>

TruncatePredicate == Truncate("predicate")

TruncateArgument == Truncate("argument")

InitTrunc == InitWith({ <<>> }, { << [ rule |-> "input", mrphs |-> m ] >> : m \in MrphLists })

NextTrunc ==
  \/ TruncatePredicate
  \/ TruncateArgument

SpecTrunc == InitTrunc /\ [][NextTrunc]_vars

\* ================================================================== claims
\* the events of a built graph whose relations have been resolved
Resolved(i) ==
  /\ loaded = <<>>
  /\ i \in 1..Len(events)
  /\ \/ pc = "done"
     \/ pc = "relations" /\ i <= cursor

\* the labels of discourse relations
DiscourseLabels == { "discourse:" \o a.label : a \in DiscAnnotations }

\* the object of the sentence of event i that comes next after it in
\* serial-id order (None: event i is the last of its sentence)
NextLater(i) ==
  LET later == { j \in 1..Len(events) :
                   events[j].sentence = events[i].sentence /\ events[j].evid > events[i].evid }
  IN IF later = {} THEN None
     ELSE CHOOSE j \in later : \A k \in later : events[j].evid <= events[k].evid

\* C1: after a build the i-th event created, sentences taken in document
\* order and events in appearance order, has evid i - 1, so the event ids
\* are exactly 0..N-1.
C1_IdsAreDense ==
  (pc \in {"relations", "done"} /\ loaded = <<>>) =>
    LET flat == FlatEvents(sentences, Len(sentences))
    IN /\ Len(flat) = Len(events)
       /\ \A i \in 1..Len(flat) : events[flat[i]].evid = i - 1
       /\ { events[i].evid : i \in 1..Len(events) } = 0..(Len(events) - 1)

\* a second build in the same process has produced three events in two sentences
C1_Witness ==
  /\ pc = "done" /\ loaded = <<>> /\ gen = 2
  /\ Len(sentences) = 2 /\ Len(events) = 3

\* C2 (as claimed): after Builder.reset the counters are 0 and every shared
\* lookup table is empty.
C2_ResetClearsEverything ==
  pc = "idle" =>
    /\ ssid = 0 /\ evid = 0
    /\ evid_event_map = EmptyMap
    /\ ssid_tid_event_map = EmptyMap
    /\ ssid_tid_bid_map = EmptyMap
    /\ ssid_tid_tag_map = EmptyMap

\* C3 (as claimed): the k-th event loaded has the event_id and the sentence
\* of the k-th event dictionary, and its relations join the events with the
\* ids the dictionary names.
C3_LoadPreservesIds ==
  (pc = "done" /\ loaded # <<>>) =>
    \A k \in 1..Len(loaded[1].events) :
      LET d  == loaded[1].events[k]
          ev == events[k]
      IN /\ ev.evid = d.event_id
         /\ sentences[ev.sentence].ssid = d.ssid
         /\ Len(ev.outgoing_relations) = Len(d.rel)
         /\ \A j \in 1..Len(d.rel) :
              /\ ev.outgoing_relations[j].modifier.evid = d.event_id
              /\ ev.outgoing_relations[j].head.evid = d.rel[j].event_id

\* C4: loading the dictionary exported from a graph and exporting the loaded
\* graph gives the same dictionary: the same sentences and, event by event,
\* the same ids, relation lists and stored strings.
C4_RoundTrip ==
  (pc = "done" /\ loaded # <<>> /\ loaded = dump) =>
    GraphToDict(sentences, events) = dump[1]

\* a graph with a reliable relation between two of its three events has
\* been exported and loaded back
C4_Witness ==
  /\ pc = "done" /\ loaded # <<>> /\ loaded = dump
  /\ Len(events) = 3
  /\ \E i \in 1..Len(events) : \E j \in 1..Len(events[i].outgoing_relations) :
       events[i].outgoing_relations[j].reliable

\* C5 (as claimed): the syntactic relations of an event with a parent are
\* reliable exactly when the parent is the next later event of the sentence.
C5_ReliableIffNextLater ==
  \A i \in 1..Len(events) :
    (Resolved(i) /\ events[i].parent # None) =>
      \A j \in 1..Len(events[i].outgoing_relations) :
        LET r == events[i].outgoing_relations[j]
        IN r.label \notin DiscourseLabels =>
             (r.reliable <=> events[i].parent = NextLater(i))

\* C5 (amended): they are reliable exactly when the parent is the next later
\* event and no event of the sentence comes after the parent.
C5_ReliableIffNextLaterAndLast ==
  \A i \in 1..Len(events) :
    (Resolved(i) /\ events[i].parent # None) =>
      \A j \in 1..Len(events[i].outgoing_relations) :
        LET r == events[i].outgoing_relations[j]
        IN r.label \notin DiscourseLabels =>
             (r.reliable <=> (events[i].parent = NextLater(i)
                              /\ NextLater(events[i].parent) = None))

\* in a sentence of three events the second has a reliable syntactic
\* relation to the third and the first an unreliable one to its parent
C5_Witness ==
  \E i, k \in 1..Len(events) :
    /\ Resolved(i) /\ Resolved(k)
    /\ events[i].sentence = events[k].sentence /\ events[k].evid < events[i].evid
    /\ events[i].parent # None /\ events[k].parent # None
    /\ events[i].outgoing_relations # <<>> /\ events[k].outgoing_relations # <<>>
    /\ events[i].outgoing_relations[1].label \notin DiscourseLabels
    /\ events[k].outgoing_relations[1].label \notin DiscourseLabels
    /\ events[i].outgoing_relations[1].reliable
    /\ ~ events[k].outgoing_relations[1].reliable

\* C6: when a parent is found and the end phrase carries the adnominal
\* clause break, the event gets exactly one relation: adnominal, to the
\* parent, with head_tid the parent id of the end phrase, whatever else the
\* end phrase carries.
C6_AdnominalFirst ==
  (pc = "relations" /\ cursor < Len(events)) =>
    LET i   == cursor + 1
        par == FindParent(events, sentences, i)
    IN par # None =>
         \A f \in EndFeatures :
           f.kubun = "adnominal" =>
             LET out == GetOutgoingRelations(events, sentences, gen, i, f, ssid_tid_event_map)
             IN /\ Len(out) = 1
                /\ out[1].label = "adnominal"
                /\ out[1].modifier = Ref(gen, i, events[i].evid)
                /\ out[1].head = Ref(gen, par, events[par].evid)
                /\ out[1].head_tid = sentences[events[i].sentence].tags[events[i].end + 1].parent_id

\* an event with a parent has got its single adnominal relation
C6_Witness ==
  \E i \in 1..Len(events) :
    /\ Resolved(i) /\ events[i].parent # None
    /\ Len(events[i].outgoing_relations) = 1
    /\ events[i].outgoing_relations[1].label = "adnominal"
    /\ events[i].outgoing_relations[1].head.obj = events[i].parent

\* C7: all relations of an event that are not discourse relations have one
\* head, the parent found for the event; the parent lies in the event's
\* sentence and has a larger evid.
C7_OneSyntacticParent ==
  \A i \in 1..Len(events) :
    Resolved(i) =>
      \A j \in 1..Len(events[i].outgoing_relations) :
        LET r == events[i].outgoing_relations[j]
            p == events[i].parent
        IN r.label \notin DiscourseLabels =>
             /\ p # None
             /\ r.head = Ref(gen, p, events[p].evid)
             /\ events[p].sentence = events[i].sentence
             /\ events[p].evid > events[i].evid

\* an event whose head phrase is not its end phrase has two syntactic
\* relations, both to its parent
C7_Witness ==
  \E i \in 1..Len(events) :
    /\ Resolved(i) /\ events[i].parent # None
    /\ events[i].head # events[i].end
    /\ Len(events[i].outgoing_relations) = 2
    /\ events[i].outgoing_relations[1].label \notin DiscourseLabels
    /\ events[i].outgoing_relations[2].head.obj = events[i].parent

\* C8 (as claimed): an event without a parent has no outgoing relation.
C8_NoParentNoRelation ==
  \A i \in 1..Len(events) :
    (Resolved(i) /\ events[i].parent = None) => events[i].outgoing_relations = <<>>

\* C8 (amended): an event without a parent gets no syntactic relation: it
\* gets one discourse relation, unreliable and with head_tid -1, for each
\* discourse annotation of its end phrase that the (sentence, phrase) ->
\* event table resolves, and so none when there is no such annotation.
C8_NoParentOnlyDiscourse ==
  /\ \A i \in 1..Len(events) :
       (Resolved(i) /\ events[i].parent = None) =>
         \A k \in 1..Len(events[i].outgoing_relations) :
           /\ events[i].outgoing_relations[k].label \in DiscourseLabels
           /\ ~ events[i].outgoing_relations[k].reliable
           /\ events[i].outgoing_relations[k].head_tid = -1
  /\ (pc = "relations" /\ cursor < Len(events)) =>
       LET i == cursor + 1
       IN FindParent(events, sentences, i) = None =>
            \A f \in EndFeatures :
              LET out == GetOutgoingRelations(events, sentences, gen, i, f, ssid_tid_event_map)
                  hit == { k \in 1..Len(f.disc) :
                             << events[i].ssid + f.disc[k].sdist, f.disc[k].tid >>
                               \in DOMAIN ssid_tid_event_map }
              IN /\ Len(out) = Cardinality(hit)
                 /\ \A k \in 1..Len(out) : out[k].label \in DiscourseLabels

\* the last event of a sentence, which has no parent, has got a discourse relation
C8_Witness ==
  \E i \in 1..Len(events) :
    /\ Resolved(i) /\ events[i].parent = None
    /\ NextLater(i) = None
    /\ Len(events[i].outgoing_relations) = 1
    /\ events[i].outgoing_relations[1].label \in DiscourseLabels

\* the events of sentence s that cover its phrase t
Covering(s, t) ==
  { h \in 1..Len(events) :
      events[h].ssid = s /\ events[h].start <= t /\ t <= events[h].end }

\* the end phrase carries the discourse annotation of distance 1, target
\* phrase 3 and label contrast, and the event gets no adnominal or complement
\* relation
Annotated(f, par) ==
  /\ f.disc = << [sdist |-> 1, tid |-> 3, label |-> "contrast"] >>
  /\ ~ (par # None /\ f.kubun \in {"adnominal", "complement"})

\* out is one discourse relation for contrast to one of the events hs
OneDiscourseRelation(out, hs) ==
  /\ Len(out) = 1
  /\ \E h \in hs : out[1].head = Ref(gen, h, events[h].evid)
  /\ out[1].label = "discourse:contrast"
  /\ ~ out[1].reliable
  /\ out[1].head_tid = -1

\* C9 (as claimed): in a two-sentence document an event of the second
\* sentence whose end phrase is so annotated gets exactly one relation, to the
\* event covering phrase 3 of the previous sentence.
C9_DiscourseToPreviousSentence ==
  (pc = "relations" /\ cursor < Len(events) /\ Len(sentences) = 2) =>
    LET i   == cursor + 1
        par == FindParent(events, sentences, i)
    IN (events[i].ssid = 1 /\ Covering(0, 3) # {}) =>
         \A f \in EndFeatures :
           Annotated(f, par) =>
             OneDiscourseRelation(
               GetOutgoingRelations(events, sentences, gen, i, f, ssid_tid_event_map),
               Covering(0, 3))

\* C9 (amended): in a two-sentence document an event of the first sentence
\* whose end phrase is so annotated gets exactly one relation: to the event
\* covering phrase 3 of the following sentence, labelled discourse:contrast,
\* not reliable, with head_tid -1.
C9_DiscourseToFollowingSentence ==
  (pc = "relations" /\ cursor < Len(events) /\ Len(sentences) = 2) =>
    LET i   == cursor + 1
        par == FindParent(events, sentences, i)
    IN (events[i].ssid = 0 /\ Covering(1, 3) # {}) =>
         \A f \in EndFeatures :
           Annotated(f, par) =>
             OneDiscourseRelation(
               GetOutgoingRelations(events, sentences, gen, i, f, ssid_tid_event_map),
               Covering(1, 3))

\* an event of the first sentence has got its one relation, a discourse
\* relation to the event covering phrase 3 of the second sentence
C9_Witness ==
  \E i \in 1..Len(events) :
    /\ Resolved(i) /\ Len(sentences) = 2 /\ events[i].ssid = 0
    /\ OneDiscourseRelation(events[i].outgoing_relations, Covering(1, 3))

\* the phrase keys of the span of a head token (an exophora holds no phrase)
SpanKeys(token) ==
  IF token.tagged THEN { Key(token.ssid, t) : t \in ToList(token) } ELSE {}

\* C10 (as claimed): after TokenBuilder has run on an event, no phrase key
\* is in two of the spans of the predicate and the arguments.
C10_PhraseUniqueness ==
  \A e \in 1..Len(tokens) :
    LET spans == << SpanKeys(tokens[e].predicate) >>
                   \o [ k \in 1..Len(tokens[e].arguments) |-> SpanKeys(tokens[e].arguments[k]) ]
    IN \A a, b \in 1..Len(spans) : a # b => spans[a] \cap spans[b] = {}

\* the phrase ids of a sentence at which a clause ends
ClauseEndTids(tags) == { t \in 0..(Len(tags) - 1) : tags[t + 1].end }

\* the clause-end phrases of a sentence whose clause (the phrases after the
\* clause end before it) holds a clause-head phrase
WellFormedEnds(tags) ==
  { e \in ClauseEndTids(tags) :
      \E h \in 0..e :
        /\ tags[h + 1].head
        /\ \A x \in ClauseEndTids(tags) : ~ (h <= x /\ x < e) }

\* the objects of the events of the s-th sentence, in creation order
EventsOf(s) == sentences[s].events

\* C11 (as claimed): a clause end met while no clause head is recorded emits
\* no event, and every clause of the sentence that has a clause head
\* followed by its clause end yields an event, also after such a malformed
\* clause: the end phrases of the events of a built sentence are exactly the
\* ends of its well-formed clauses.
C11_MalformedClauseSkipped ==
  loaded = <<>> =>
    \A s \in 1..Len(sentences) :
      { events[EventsOf(s)[k]].end : k \in 1..Len(EventsOf(s)) }
        = WellFormedEnds(sentences[s].tags)

\* the clause-head phrases met between the emission before the k-th event
\* of the s-th sentence and the end of that event
HeadsMet(s, k) ==
  LET prev == IF k = 1 THEN -1 ELSE events[EventsOf(s)[k - 1]].end
  IN { t \in (prev + 1)..events[EventsOf(s)[k]].end : sentences[s].tags[t + 1].head }

\* C17: the head of each event of a built sentence is the first clause-head
\* phrase met after the event emitted before it (or after the start of the
\* sentence), whatever clause-head phrases follow before its clause end.
C17_HeadIsFirstClauseHead ==
  loaded = <<>> =>
    \A s \in 1..Len(sentences) :
      \A k \in 1..Len(EventsOf(s)) :
        /\ events[EventsOf(s)[k]].head \in HeadsMet(s, k)
        /\ \A t \in HeadsMet(s, k) : events[EventsOf(s)[k]].head <= t

\* a second event of a sentence was emitted with two clause-head phrases met
\* before its clause end
C17_Witness ==
  /\ loaded = <<>>
  /\ \E s \in 1..Len(sentences) :
       /\ Len(EventsOf(s)) = 2
       /\ Cardinality(HeadsMet(s, 2)) = 2

\* the d-th proper ancestor of phrase t in the dependency tree of a sentence
\* (None: above the root)
RECURSIVE AncestorAt(_, _, _)
AncestorAt(tags, t, d) ==
  IF t = None THEN None
  ELSE IF d = 0 THEN t
  ELSE AncestorAt(tags, tags[t + 1].parent_id, d - 1)

\* the events of the sentence of event i with a larger evid whose head or
\* end phrase is phrase a
LaterEventsAt(i, a) ==
  { j \in 1..Len(events) :
      /\ events[j].sentence = events[i].sentence
      /\ events[j].evid > events[i].evid
      /\ a \in { events[j].head, events[j].end } }

\* the depths of the proper ancestors of the head of event i that are the
\* head or end phrase of a later event of its sentence
QualifyingDepths(i) ==
  LET tags == sentences[events[i].sentence].tags
  IN { d \in 1..Len(tags) :
         /\ AncestorAt(tags, events[i].head, d) # None
         /\ LaterEventsAt(i, AncestorAt(tags, events[i].head, d)) # {} }

MaxEvent(S) == CHOOSE j \in S : \A k \in S : events[k].evid <= events[j].evid

\* the last two events of the sentence of event i, by serial id, are event i
\* followed by event par
LastTwoAre(i, par) ==
  LET S == { j \in 1..Len(events) : events[j].sentence = events[i].sentence }
  IN /\ par = MaxEvent(S)
     /\ S \ {par} # {}
     /\ i = MaxEvent(S \ {par})

\* C16: the reliability value computed for an event is true exactly when a
\* parent is found and the last two events of the sentence, by serial id,
\* are the event followed by the parent, and false when no parent is found;
\* the relations to the parent carry this value.
C16_ReliabilityValue ==
  (pc = "relations" /\ cursor < Len(events)) =>
    LET i   == cursor + 1
        par == FindParent(events, sentences, i)
        val == Reliable(events, sentences, i, par)
    IN /\ val <=> (par # None /\ LastTwoAre(i, par))
       /\ \A f \in EndFeatures :
            LET out == GetOutgoingRelations(events, sentences, gen, i, f, ssid_tid_event_map)
            IN \A k \in 1..Len(out) :
                 out[k].label \notin DiscourseLabels => (out[k].reliable <=> val)

\* in a sentence of two events the first has got a reliable relation to
\* the second, its parent
C16_Witness ==
  \E i \in 1..Len(events) :
    /\ Resolved(i) /\ events[i].parent # None
    /\ Len(EventsOf(events[i].sentence)) = 2
    /\ LastTwoAre(i, events[i].parent)
    /\ events[i].outgoing_relations # <<>>
    /\ events[i].outgoing_relations[1].label = "dependency"
    /\ events[i].outgoing_relations[1].reliable

C18_RelationsAfterAllEvents ==
  (loaded = <<>> /\ pc \in {"relations", "done"}) =>
    /\ Len(sentences) = Len(blists)
    /\ \A i \in 1..Len(events) :
         \A t \in events[i].start..events[i].end :
           /\ << events[i].ssid, t >> \in DOMAIN ssid_tid_event_map
           /\ ssid_tid_event_map[<< events[i].ssid, t >>] = Ref(gen, i, events[i].evid)
    /\ (pc = "relations" /\ cursor < Len(events)) =>
         LET i   == cursor + 1
             par == FindParent(events, sentences, i)
         IN \A f \in EndFeatures :
              (/\ Len(f.disc) = 1
               /\ f.disc[1].sdist > 0
               /\ Covering(events[i].ssid + f.disc[1].sdist, f.disc[1].tid) # {}
               /\ ~ (par # None /\ f.kubun \in {"adnominal", "complement"})) =>
                LET out == GetOutgoingRelations(events, sentences, gen, i, f, ssid_tid_event_map)
                IN /\ Len(out) = 1
                   /\ out[1].label \in DiscourseLabels
                   /\ \E h \in Covering(events[i].ssid + f.disc[1].sdist, f.disc[1].tid) :
                        out[1].head = Ref(gen, h, events[h].evid)

\* the first event of a two-sentence document has got a discourse relation
\* to an event of the second sentence, created after it
C18_Witness ==
  /\ loaded = <<>> /\ Len(sentences) = 2 /\ cursor >= 1
  /\ events[1].ssid = 0
  /\ Len(events[1].outgoing_relations) = 1
  /\ events[1].outgoing_relations[1].label \in DiscourseLabels
  /\ events[events[1].outgoing_relations[1].head.obj].ssid = 1

\* the target (event sentence - sentence distance, phrase) of the j-th
\* argument of the k-th event is not in the phrase index
TargetAbsent(k, j) ==
  Get(ssid_tid_tag_map,
      << events[k].ssid - tokens[k].args[j].sdist, tokens[k].args[j].tid >>, None) = None

\* C13: an argument whose target is absent from the phrase index makes
\* neither the assignment of tokens nor a later read of a text property
\* fail, and is kept as a token without a phrase, whatever its flag.
C13_AbsentTargetIsPlaceholder ==
  \A k \in 1..Len(tokens) : \A j \in 1..Len(tokens[k].args) :
    TargetAbsent(k, j) =>
      /\ raised = NoError
      /\ j <= Len(tokens[k].arguments)
      /\ ~ tokens[k].arguments[j].tagged

\* C14: a text property of a built event, and the mrphs of its predicate,
\* is computed at most once: a second read of the same property of the same
\* event returns the stored result.
C14_ComputedAtMostOnce ==
  \A k1 \in 1..Len(runs) : \A k2 \in 1..Len(runs) :
    (k1 < k2 /\ runs[k1].event = runs[k2].event /\ runs[k1].accessor = runs[k2].accessor)
      => ~ runs[k2].computed

\* the groups of the tokens of the event i whose first phrase does not
\* follow the last phrase of the group before, where neither group holds an
\* omitted argument and the group has no adnominal or complement modifier
GapGroups(i) ==
  LET ev     == events[i]
      groups == GroupTokens(ToTokens(ev, sentences[ev.sentence].tags, tokens[i], FALSE))
      Omitted(group) == \E k \in 1..Len(group) : group[k].omitted_case # ""
  IN { g \in 2..Len(groups) :
         /\ ~ Omitted(groups[g]) /\ ~ Omitted(groups[g - 1])
         /\ groups[g][1].tid # Last(groups[g - 1]).tid + 1
         /\ ~ HasModifier(ev, groups[g], "adnominal")
         /\ ~ HasModifier(ev, groups[g], "complement") }

\* C19: the marked text of an event has a "|" for each group of phrases
\* that starts after a gap in the phrase ids and has no adnominal or
\* complement mark.
C19_GapIsMarked ==
  \A k \in 1..Len(runs) :
    (runs[k].accessor = "mrphs_with_mark" /\ runs[k].error = "")
      => Cardinality({ p \in 1..Len(runs[k].words) : runs[k].words[p] = "|" })
           = Cardinality(GapGroups(runs[k].event))

\* the morphemes of the predicate of the event i hold an adjective with the
\* polite copula right after it
AdjectiveThenCopula(i) ==
  LET mrphs == PredicateMrphList(sentences[events[i].sentence].tags, tokens[i])
  IN \E p \in 1..(Len(mrphs) - 1) : mrphs[p] = Adjective /\ mrphs[p + 1] = Desu

\* C20: when the predicate has an adjective followed by the polite copula,
\* the normalized text of the event ends with the base form of the adjective,
\* which is also the morpheme the rule of the predicate cuts at.
C20_CopulaDropped ==
  \A k \in 1..Len(runs) :
    (runs[k].accessor = "normalized_mrphs" /\ runs[k].error = ""
       /\ AdjectiveThenCopula(runs[k].event))
      => LET i     == runs[k].event
             mrphs == PredicateMrphList(sentences[events[i].sentence].tags, tokens[i])
         IN /\ Last(runs[k].words) = Adjective.genkei
            /\ Last(runs[k].words) = Last(TruncateMrphs(mrphs, Len(mrphs))).genkei

\* C28: every built event has start <= head <= end; of two events of one
\* sentence the one with the smaller evid ends before the other starts; so
\* each phrase of a span is mapped to the event of that span.
C28_SpansWellFormed ==
  loaded = <<>> =>
    \A i \in 1..Len(events) :
      /\ events[i].start <= events[i].head /\ events[i].head <= events[i].end
      /\ \A j \in 1..Len(events) :
           (events[i].sentence = events[j].sentence /\ events[i].evid < events[j].evid)
             => events[i].end < events[j].start
      /\ \A t \in events[i].start..events[i].end :
           ssid_tid_event_map[<< events[i].ssid, t >>] = Ref(gen, i, events[i].evid)

C28_Witness ==
  /\ loaded = <<>>
  /\ \E i \in 1..Len(events) : \E j \in 1..Len(events) :
       /\ events[i].sentence = events[j].sentence /\ events[i].evid < events[j].evid
       /\ events[j].start < events[j].head

\* the number of places of the list lst that hold r
Count(lst, r) == Cardinality({ k \in 1..Len(lst) : lst[k] = r })

C29_ParentIffChild ==
  (pc = "done" /\ loaded = <<>>) =>
    \A e \in 1..Len(events) : \A p \in 1..Len(events) :
      (events[e].parent = p) <=> (\E k \in 1..Len(events[p].children) : events[p].children[k] = e)

\* C30: no relation of a built graph has one event as modifier and as head.
C30_NoSelfLoop ==
  loaded = <<>> =>
    \A i \in 1..Len(events) : \A k \in 1..Len(events[i].outgoing_relations) :
      events[i].outgoing_relations[k].modifier # events[i].outgoing_relations[k].head

\* the omitted cases that have a rank: ga, wo and ni
RankedCases == {"ga", "wo", "ni"}

\* C23: among the tokens of an event, an omitted argument of a ranked case
\* (ni included) comes before every realized phrase and before every omitted
\* argument of a case without rank.
C23_RankedCasesFirst ==
  \A i \in 1..Len(tokens) :
    tokens[i].predicate # NoToken =>
      LET ev    == events[i]
          items == ToTokens(ev, sentences[ev.sentence].tags, tokens[i], FALSE)
      IN \A a \in 1..Len(items) : \A b \in 1..Len(items) :
           (items[a].omitted_case \in RankedCases /\ items[b].omitted_case \notin RankedCases)
             => a < b

\* the numbers of words between each "[" and the "]" after it
RECURSIVE BracketLens(_, _, _)
BracketLens(words, open, n) ==
  IF words = <<>> THEN <<>>
  ELSE IF Head(words) = "[" THEN BracketLens(Tail(words), TRUE, 0)
  ELSE IF Head(words) = "]" THEN << n >> \o BracketLens(Tail(words), FALSE, 0)
  ELSE BracketLens(Tail(words), open, IF open THEN n + 1 ELSE n)

\* the numbers of words of the omitted arguments among the tokens of the
\* event i, in the order of the tokens
OmittedLens(i) ==
  LET ev      == events[i]
      tags    == sentences[ev.sentence].tags
      items   == ToTokens(ev, tags, tokens[i], FALSE)
      IsOmitted(it) == it.omitted_case # ""
      omitted == SelectSeq(items, IsOmitted)
  IN [ k \in 1..Len(omitted) |-> Len(TokensToMrphs(tags, << omitted[k] >>)) ]

\* C22: in the text of an event each pair of brackets encloses the words of
\* exactly one omitted argument: no two omitted arguments share a pair, and
\* no realized phrase stands inside one.
C22_OneBracketPerOmittedArgument ==
  \A k \in 1..Len(runs) :
    (runs[k].accessor = "surf" /\ runs[k].error = "")
      => BracketLens(runs[k].words, FALSE, 0) = OmittedLens(runs[k].event)

\* the last morpheme of mrphs that conjugates
LastConjugating(mrphs) ==
  mrphs[CHOOSE p \in 1..Len(mrphs) :
          mrphs[p].conj /\ \A q \in (p + 1)..Len(mrphs) : ~ mrphs[q].conj]

\* C24: the truncated text of an event ends with the morpheme of the
\* predicate that the truncation rule matches, whatever tokens stand before
\* the predicate's head token in its group or in the groups before it
\* (predicates without the polite copula: the rule matches their last
\* conjugating morpheme).
C24_TruncationAligned ==
  \A k \in 1..Len(runs) :
    (runs[k].accessor = "normalized_mrphs" /\ runs[k].error = ""
       /\ ~ AdjectiveThenCopula(runs[k].event))
      => LET i == runs[k].event
         IN Last(runs[k].words)
              = LastConjugating(PredicateMrphList(sentences[events[i].sentence].tags,
                                                  tokens[i])).genkei

\* C21: truncating the result of a truncation gives the same morphemes, for
\* the rule of the predicate and for the rule of the argument.
C21_TruncationIdempotent ==
  \A k \in 3..Len(truncations) : truncations[k].mrphs = truncations[k - 1].mrphs

\* the same for the rule of the argument alone
C21_ArgumentTruncationIdempotent ==
  \A k \in 3..Len(truncations) :
    truncations[k].rule = "argument" => truncations[k].mrphs = truncations[k - 1].mrphs

\* C26: every adnominal or sentential-complement relation into an event is
\* reported by a phrase the event holds, that of its head_tid in the event's
\* own sentence, and by no phrase of another sentence or another id.
C26_ReverseIndexComplete ==
  \A i \in 1..Len(tokens) :
    (pc = "done" /\ tokens[i].predicate # NoToken) =>
      \A k \in 1..Len(events[i].incoming_relations) :
        LET r == events[i].incoming_relations[k]
            Reports(it) ==
              \E j \in 1..Len(ModifyingEvents(events[i], it, r.label)) :
                ModifyingEvents(events[i], it, r.label)[j] = r.modifier.evid
        IN r.label \in {"adnominal", "complement"} =>
             /\ \E it \in EventItems(i) :
                  it.ssid = events[i].ssid /\ it.tid = r.head_tid /\ Reports(it)
             /\ \A it \in EventItems(i) :
                  Reports(it) => it.ssid = events[i].ssid /\ it.tid = r.head_tid

\* C27: every read of adnominal_event_ids or sentential_complement_event_ids
\* of a predicate returns the list recomputed from the incoming relations the
\* event has at the time of the read.
C27_ReadsAreCurrent ==
  [][ Len(runs') > Len(runs) =>
        Last(runs').words = PredicateEventIds(events, tokens, Last(runs').event,
                                              Last(runs').accessor) ]_vars

====
